---- MODULE Spec2Model ----
(***************************************************************************)
(* MarketPulse REST backend (src/index.js, last snapshot, lines 469-2062). *)
(* State: the document collections and the requests in flight.  One action *)
(* per middleware and per handler step (a handler is split only at the     *)
(* awaits that separate a store read from the store write that follows).  *)
(***************************************************************************)
EXTENDS Integers, Sequences, FiniteSets, TLC

VARIABLES users, vendorApps, products, cart, wish, payments, reqs, hist

store == <<users, vendorApps, products, cart, wish, payments>>
vars == <<users, vendorApps, products, cart, wish, payments, reqs, hist>>

\* ---------------------------------------------------------------- bounds
MaxHist == 3
MaxQty == 3
NSlots == 1
MaxPay == 3
MaxProducts == 4
MaxOrders == 1
NCon == 2

Slots == 1..NSlots

\* The requests in flight where requests are handled concurrently.
ConSlots == 1..NCon

\* ---------------------------------------------------------- JS values
\* The JS value undefined (an absent header, query parameter, body field or
\* document field).
Undefined == "<undefined>"

\* JS falsiness of a string-valued expression: !x
Falsy(x) == x \in {Undefined, ""}

\* ------------------------------------------------------------ identities
UserMail == "user@mp"
VendorMail == "vendor@mp"
AdminMail == "admin@mp"
GhostMail == "ghost@mp"
Vendor2Mail == "vendor2@mp"
Emails == {UserMail, VendorMail, AdminMail, GhostMail, Vendor2Mail}

Roles == {"user", "vendor", "admin"}

\* ---------------------------------------------------------------- tokens
\* jwt.sign({ email }, JWT_SECRET_KEY): the token issued for an email claim.
\* "tok-noemail" is the token POST /jwt issues for a body without email.
JwtSign(email) ==
  CASE email = UserMail -> "tok-user"
    [] email = VendorMail -> "tok-vendor"
    [] email = AdminMail -> "tok-admin"
    [] email = GhostMail -> "tok-ghost"
    [] email = Vendor2Mail -> "tok-vendor2"
    [] OTHER -> "tok-noemail"

\* Tokens that were not produced by JwtSign with the server key, or that are
\* past their expiry: their payload names the admin.
ForgedTokens == {"tok-forged", "tok-expired"}
SignedTokens == {JwtSign(e) : e \in Emails \cup {Undefined}}

\* The email claim of a token's payload (decoded.email).
JwtPayload(token) ==
  IF token \in SignedTokens
  THEN CHOOSE e \in Emails \cup {Undefined} : JwtSign(e) = token
  ELSE IF token \in ForgedTokens THEN AdminMail ELSE Undefined

JwtVerifyNoSignatureCheck(token) ==
  [err |-> FALSE, email |-> JwtPayload(token)]

\* jwt.verify(token, JWT_SECRET_KEY, (err, decoded) => ...)
JwtVerify(token) ==
  IF token \in SignedTokens
  THEN [err |-> FALSE, email |-> JwtPayload(token)]
  ELSE [err |-> TRUE, email |-> Undefined]

\* An Authorization header is modelled by authHeader.split(" "): the
\* sequence of its space-separated segments; <<>> is the absent header.
\* authHeader && authHeader.startsWith("Bearer ")
StartsWithBearer(h) == Len(h) >= 2 /\ h[1] = "Bearer"

\* authHeader.split(" ")[1].trim()
TokenOf(h) == h[2]

\* ---------------------------------------------------------------- routes
RUsers == "GET /users"
RAllProducts == "GET /all-products"
RGetCart == "GET /get-cart"
RCart == "POST /cart"
RWishlist == "POST /wishlist"
RCartUpdate == "PATCH /cart/update/:itemId"
RVendorReq == "PATCH /vendor-requests/:vendorId"
RPayCart == "POST /create-payment-intent-cart"
RPayIntent == "POST /create-payment-intent"
RVendorOrders == "GET /vendor/orders"
RAdminOrders == "GET /admin/orders"
ROrders == "GET /orders"
RModifyProduct == "PATCH /modify-product/:id"
RDeleteProducts == "DELETE /delete-products/:id"
RApprovedProducts == "GET /approved-products"
RApproveProduct == "PATCH /approve-product/:productId"
RRejectProduct == "PATCH /reject-product/:id"
RSavePayment == "POST /save-payment"
RCreateOrder == "POST /create-order"
RAddProducts == "POST /add-products"
RDeleteWishlist == "DELETE /delete-wishlist/:id"
RUpdateRole == "PATCH /users/updateRole/:id"

\* The routes registered with verifyToken, verifyTokenEmail and verifyRole.
RoleRoutes ==
  {RUsers, RAllProducts, RVendorReq, RPayCart, RPayIntent, RVendorOrders,
   RAdminOrders, ROrders, RModifyProduct, RDeleteProducts, RApproveProduct,
   RRejectProduct, RSavePayment, RAddProducts, RDeleteWishlist, RUpdateRole}

ChainRoleBeforeEmail(route) ==
  CASE route \in RoleRoutes ->
         <<"verifyToken", "verifyRole", "verifyTokenEmail">>
    [] route \in {RGetCart, RCart, RCartUpdate, RCreateOrder} ->
         <<"verifyToken", "verifyTokenEmail">>
    [] OTHER -> <<>>

\* The middleware list each route is registered with.
Chain(route) ==
  CASE route \in RoleRoutes ->
         <<"verifyToken", "verifyTokenEmail", "verifyRole">>
    [] route \in {RGetCart, RCart, RCartUpdate, RCreateOrder} ->
         <<"verifyToken", "verifyTokenEmail">>
    [] OTHER -> <<>>

\* The argument list of verifyRole(...) on each route.
ExpectedRoles(route) ==
  CASE route \in {RUsers, RVendorReq, RAdminOrders, RApproveProduct,
                   RRejectProduct, RUpdateRole} -> {"admin"}
    [] route = RAllProducts -> {"admin", "user"}
    [] route \in {RPayCart, RPayIntent, ROrders, RSavePayment,
                   RDeleteWishlist} -> {"user"}
    [] route \in {RVendorOrders, RAddProducts} -> {"vendor"}
    [] route \in {RModifyProduct, RDeleteProducts} -> {"vendor", "admin"}
    [] OTHER -> {}

Middlewares == {"verifyToken", "verifyTokenEmail", "verifyRole"}

\* -------------------------------------------------------------- requests
\* A request: its inputs (route, header, query, params, body), the position
\* of its processing (pc), what the middlewares attached (authed, decoded),
\* the handler's locals (found, seen) and its response (status, 0: none yet).
\* trace lists the pipeline steps entered; lookups, reads, writes and calls
\* count the role lookups, handler store reads, store writes and
\* payment-provider calls made for it; out is the list in the response body.
NoItems == <<>>

\* A body without a price field.
NoPrice == [num |-> FALSE, mills |-> 0, given |-> FALSE]

\* The query and body fields only some routes read, all absent: the body's
\* price, reason, feedback, paymentIntentId, paidAt and items (hasItems: the
\* field is present), the query's page and limit (0: absent), sort and date
\* (<<>>: absent; a date is the sequence of its "-"-separated parts).
NoMore ==
  [price |-> NoPrice, page |-> 0, limit |-> 0, sort |-> Undefined, date |-> <<>>,
   reason |-> Undefined, feedback |-> Undefined, paymentIntentId |-> Undefined,
   paidAt |-> Undefined, hasItems |-> FALSE, role |-> Undefined]

Input(route, header, qEmail, qAction, id, bProduct, bEmail, bStatus, bItems, track) ==
  [route |-> route, header |-> header, qEmail |-> qEmail, qAction |-> qAction,
   id |-> id, bProduct |-> bProduct, bEmail |-> bEmail, bStatus |-> bStatus,
   bItems |-> bItems, track |-> track, more |-> NoMore]

\* The request in with the further query and body fields b.
WithMore(in, b) == [in EXCEPT !.more = b]

IdleReq ==
  [route |-> "", header |-> <<>>, qEmail |-> Undefined, qAction |-> Undefined,
   id |-> 0, bProduct |-> 0, bEmail |-> Undefined, bStatus |-> Undefined,
   bItems |-> NoItems, track |-> FALSE, more |-> NoMore,
   pc |-> "idle", authed |-> FALSE, decoded |-> Undefined, role |-> Undefined,
   found |-> FALSE, seen |-> 0, seenStatus |-> Undefined, seenEmail |-> Undefined,
   status |-> 0, trace |-> <<>>, lookups |-> 0, reads |-> 0, writes |-> 0,
   calls |-> 0, amount |-> 0, out |-> <<>>, totalPages |-> 0]

\* The step that runs after position i of the route's chain: next().
StepAfter(route, i) ==
  IF i < Len(Chain(route)) THEN Chain(route)[i + 1] ELSE "handler"

\* Express dispatch: the request enters the first element of its chain.
Start(in) ==
  [IdleReq EXCEPT
     !.route = in.route, !.header = in.header, !.qEmail = in.qEmail,
     !.qAction = in.qAction, !.id = in.id, !.bProduct = in.bProduct,
     !.bEmail = in.bEmail, !.bStatus = in.bStatus, !.bItems = in.bItems,
     !.track = in.track, !.more = in.more,
     !.pc = StepAfter(in.route, 0), !.trace = <<StepAfter(in.route, 0)>>]

\* next(): hand the request to the following step.
Advance(r) ==
  LET n == StepAfter(r.route, Len(r.trace))
  IN [r EXCEPT !.pc = n, !.trace = Append(r.trace, n)]

\* res.status(code).send(...): the response ends the request.
Respond(r, code) == [r EXCEPT !.pc = "done", !.status = code]

Summary(r) ==
  [route |-> r.route, qEmail |-> r.qEmail, bEmail |-> r.bEmail,
   bProduct |-> r.bProduct, id |-> r.id, bStatus |-> r.bStatus,
   more |-> r.more, status |-> r.status, calls |-> r.calls, amount |-> r.amount]

\* Slot s continues as r2; a tracked request's response is logged.
Step(s, r2) ==
  /\ reqs' = [reqs EXCEPT ![s] = r2]
  /\ hist' = IF r2.pc = "done" /\ r2.track THEN Append(hist, Summary(r2)) ELSE hist

Quiet == \A s \in Slots : reqs[s].pc = "idle"

\* A request arrives while no other request is being processed.
BeginSeq(in) ==
  /\ Quiet
  /\ in.track => Len(hist) < MaxHist
  /\ Step(1, Start(in))
  /\ UNCHANGED store

\* A request arrives while others may be in flight: every await of a handler
\* is a point where another request's step can run.  At most MaxHist
\* tracked requests are admitted.
Begin(s, in) ==
  /\ reqs[s].pc = "idle"
  /\ in.track =>
       Len(hist) + Cardinality({t \in DOMAIN reqs :
                                  reqs[t].track /\ reqs[t].pc \notin {"idle", "done"}})
         < MaxHist
  /\ Step(s, Start(in))
  /\ UNCHANGED store

\* The response has been sent: the request object is dropped.
Retire(s) ==
  /\ reqs[s].pc = "done"
  /\ reqs' = [reqs EXCEPT ![s] = IdleReq]
  /\ UNCHANGED <<store, hist>>

\* ------------------------------------------------------------ middlewares
VerifyToken(s) ==
  LET r == reqs[s] IN
  /\ r.pc = "verifyToken"
  /\ IF ~StartsWithBearer(r.header)
     THEN Step(s, Respond(r, 401))
     ELSE LET v == JwtVerify(TokenOf(r.header)) IN
          IF v.err
          THEN Step(s, Respond(r, 403))
          ELSE Step(s, Advance([r EXCEPT !.authed = TRUE, !.decoded = v.email]))
  /\ UNCHANGED store

EmailMismatchOnlyWhenGiven(q, d) == ~Falsy(q) /\ q # d

\* req?.query?.email !== req.decoded?.email
EmailMismatch(q, d) == q # d

VerifyTokenEmail(s) ==
  LET r == reqs[s] IN
  /\ r.pc = "verifyTokenEmail"
  /\ IF EmailMismatch(r.qEmail, r.decoded)
     THEN Step(s, Respond(r, 403))
     ELSE Step(s, Advance(r))
  /\ UNCHANGED store

\* The role the user had when the token was issued.
RoleAtSignIn(email) ==
  CASE email = UserMail -> "user"
    [] email \in {VendorMail, Vendor2Mail} -> "vendor"
    [] email = AdminMail -> "admin"
    [] OTHER -> Undefined

\* usersCollection.findOne({ email }, { projection: { role: 1 } })?.role
RoleOf(email) == IF email \in DOMAIN users THEN users[email] ELSE Undefined

RoleAcceptedEquality(role, expected) == expected = {role}

\* expectedRoles.includes(user?.role)
RoleAccepted(role, expected) == role \in expected

VerifyRole(s) ==
  LET r == reqs[s] IN
  /\ r.pc = "verifyRole"
  /\ IF Falsy(r.decoded)
     THEN Step(s, Respond(r, 401))
     ELSE LET role == RoleOf(r.decoded)
              r2 == [r EXCEPT !.role = role, !.lookups = @ + 1] IN
          IF ~RoleAccepted(role, ExpectedRoles(r.route))
          THEN Step(s, Respond(r2, 403))
          ELSE Step(s, Advance(r2))
  /\ UNCHANGED store

\* --------------------------------------------------------- read handlers
\* GET /users: list the users.
UsersHandler(s) ==
  LET r == reqs[s] IN
  /\ r.pc = "handler" /\ r.route = RUsers
  /\ Step(s, Respond([r EXCEPT !.reads = @ + 1], 200))
  /\ UNCHANGED store

\* GET /all-products: list the products.
AllProductsHandler(s) ==
  LET r == reqs[s] IN
  /\ r.pc = "handler" /\ r.route = RAllProducts
  /\ Step(s, Respond([r EXCEPT !.reads = @ + 1], 200))
  /\ UNCHANGED store

\* GET /get-cart: the caller's cart rows.
GetCartHandler(s) ==
  LET r == reqs[s] IN
  /\ r.pc = "handler" /\ r.route = RGetCart
  /\ IF Falsy(r.qEmail)
     THEN Step(s, Respond(r, 400))
     ELSE Step(s, Respond([r EXCEPT !.reads = @ + 1], 200))
  /\ UNCHANGED store

\* ------------------------------------------------------------------ cart
\* cart is the sequence of cart documents in insertion order.
Min(S) == CHOOSE x \in S : \A y \in S : x <= y

CartMatchesByProductOnly(buyerEmail, productId) ==
  {i \in DOMAIN cart : cart[i].productId = productId}

\* The rows selected by the filter { buyerEmail, productId }.
CartMatches(buyerEmail, productId) ==
  {i \in DOMAIN cart : cart[i].buyerEmail = buyerEmail /\ cart[i].productId = productId}

\* POST /cart, up to the await of cartCollections.findOne({buyerEmail, productId}):
\* seen is the _id of the first matching row.
CartFind(s) ==
  LET r == reqs[s]
      m == CartMatches(r.bEmail, r.bProduct) IN
  /\ r.pc = "handler" /\ r.route = RCart
  /\ Step(s, [r EXCEPT !.pc = "write", !.reads = @ + 1,
                       !.found = (m # {}),
                       !.seen = IF m = {} THEN 0 ELSE cart[Min(m)].id])
  /\ UNCHANGED store

\* insertOne gives the new document a fresh _id.
NewId(coll) == Len(coll) + 1

\* updateOne(filter, { $inc: { quantity: by } }) on the first of the rows hit.
IncQuantity(coll, hit, by) ==
  IF hit = {} THEN coll
  ELSE [coll EXCEPT ![Min(hit)].quantity = @ + by]

\* POST /cart after the await: $inc the row found, or insert a new row.
CartWrite(s) ==
  LET r == reqs[s]
      hit == {i \in DOMAIN cart : cart[i].id = r.seen} IN
  /\ r.pc = "write" /\ r.route = RCart
  /\ \A i \in hit : cart[i].quantity < MaxQty
  /\ IF r.found
     THEN /\ cart' = IncQuantity(cart, hit, 1)
          /\ Step(s, Respond([r EXCEPT !.writes = @ + 1], 200))
     ELSE /\ cart' = Append(cart, [id |-> NewId(cart), buyerEmail |-> r.bEmail,
                                   productId |-> r.bProduct,
                                   pricePerUnit |-> r.more.price, quantity |-> 1])
          /\ Step(s, Respond([r EXCEPT !.writes = @ + 1], 201))
  /\ UNCHANGED <<users, vendorApps, products, wish, payments>>

\* !action || !["increase", "decrease"].includes(action)
InvalidAction(action) == Falsy(action) \/ action \notin {"increase", "decrease"}

\* PATCH /cart/update/:itemId up to the await of
\* cartCollections.findOne({ _id, buyerEmail: email }); seen is cartItem.quantity.
CartUpdFind(s) ==
  LET r == reqs[s]
      m == {i \in DOMAIN cart : cart[i].id = r.id /\ cart[i].buyerEmail = r.qEmail} IN
  /\ r.pc = "handler" /\ r.route = RCartUpdate
  /\ IF InvalidAction(r.qAction)
     THEN Step(s, Respond(r, 400))
     ELSE Step(s, [r EXCEPT !.pc = "write", !.reads = @ + 1,
                            !.found = (m # {}),
                            !.seen = IF m = {} THEN 0 ELSE cart[Min(m)].quantity])
  /\ UNCHANGED store

AtFloorStrict(quantity) == quantity < 1

\* cartItem.quantity <= 1
AtFloor(quantity) == quantity <= 1

\* After the findOne: the guards, then updateOne with $inc.
CartUpdWrite(s) ==
  LET r == reqs[s]
      hit == {i \in DOMAIN cart : cart[i].id = r.id /\ cart[i].buyerEmail = r.qEmail} IN
  /\ r.pc = "write" /\ r.route = RCartUpdate
  /\ r.qAction = "increase" => \A i \in hit : cart[i].quantity < MaxQty
  /\ IF ~r.found
     THEN Step(s, Respond(r, 404)) /\ UNCHANGED store
     ELSE IF r.qAction = "decrease" /\ AtFloor(r.seen)
     THEN Step(s, Respond(r, 400)) /\ UNCHANGED store
     ELSE /\ cart' = IncQuantity(cart, hit, IF r.qAction = "increase" THEN 1 ELSE -1)
          /\ Step(s, Respond([r EXCEPT !.writes = @ + 1], 200))
          /\ UNCHANGED <<users, vendorApps, products, wish, payments>>

\* -------------------------------------------------------------- wishlist
\* wish is the sequence of wishlist documents in insertion order.
AlreadyExistsWrongField(email, productId) == FALSE

\* wishCollections.findOne({ email, productId }) found a document
AlreadyExists(email, productId) ==
  \E i \in DOMAIN wish : wish[i].email = email /\ wish[i].productId = productId

\* POST /wishlist up to the await of the findOne (productId 0: absent).
WishFind(s) ==
  LET r == reqs[s] IN
  /\ r.pc = "handler" /\ r.route = RWishlist
  /\ IF Falsy(r.qEmail) \/ r.bProduct = 0
     THEN Step(s, Respond(r, 400))
     ELSE Step(s, [r EXCEPT !.pc = "write", !.reads = @ + 1,
                            !.found = AlreadyExists(r.qEmail, r.bProduct)])
  /\ UNCHANGED store

\* After the findOne: 409 if a document was found, else insertOne.
WishInsert(s) ==
  LET r == reqs[s] IN
  /\ r.pc = "write" /\ r.route = RWishlist
  /\ IF r.found
     THEN Step(s, Respond(r, 409)) /\ UNCHANGED store
     ELSE /\ wish' = Append(wish, [email |-> r.qEmail, productId |-> r.bProduct])
          /\ Step(s, Respond([r EXCEPT !.writes = @ + 1], 200))
          /\ UNCHANGED <<users, vendorApps, products, cart, payments>>

\* deleteOne(query) on a sequence of documents: the first document whose
\* productId is the one asked for is removed.
DeleteFirst(docs, productId) ==
  IF \E i \in DOMAIN docs : docs[i].productId = productId
  THEN LET hit == CHOOSE i \in DOMAIN docs :
                    /\ docs[i].productId = productId
                    /\ \A j \in 1..(i - 1) : docs[j].productId # productId IN
       SubSeq(docs, 1, hit - 1) \o SubSeq(docs, hit + 1, Len(docs))
  ELSE docs

\* DELETE /delete-wishlist/:id: deleteOne({ productId: req.params.id }); the
\* result is sent.
DeleteWishlist(s) ==
  LET r == reqs[s] IN
  /\ r.pc = "handler" /\ r.route = RDeleteWishlist
  /\ wish' = DeleteFirst(wish, r.id)
  /\ Step(s, Respond([r EXCEPT !.writes = @ + 1], 200))
  /\ UNCHANGED <<users, vendorApps, products, cart, payments>>

\* ------------------------------------------------------------------ roles
\* The email of the user document with the _id (1: the user's, 2: the
\* vendor's; no other _id has a document).
UserById(id) ==
  CASE id = 1 -> UserMail
    [] id = 2 -> VendorMail
    [] OTHER -> Undefined

\* PATCH /users/updateRole/:id: 400 unless the body's role is user, vendor or
\* admin; else updateOne({ _id }, { $set: { role } }) and the result is sent.
UpdateRole(s) ==
  LET r == reqs[s] IN
  /\ r.pc = "handler" /\ r.route = RUpdateRole
  /\ IF r.more.role \notin {"user", "vendor", "admin"}
     THEN /\ users' = users
          /\ Step(s, Respond(r, 400))
     ELSE /\ users' = IF UserById(r.id) \in DOMAIN users
                      THEN [users EXCEPT ![UserById(r.id)] = r.more.role]
                      ELSE users
          /\ Step(s, Respond([r EXCEPT !.writes = @ + 1], 200))
  /\ UNCHANGED <<vendorApps, products, cart, wish, payments>>

\* ------------------------------------------------- vendor applications
ValidVendorStatus == {"pending", "approved", "rejected"}

\* PATCH /vendor-requests/:vendorId up to the await of vendorsCollection.findOne.
VendorFind(s) ==
  LET r == reqs[s] IN
  /\ r.pc = "handler" /\ r.route = RVendorReq
  /\ IF r.bStatus \notin ValidVendorStatus
     THEN Step(s, Respond(r, 400))
     ELSE IF r.id \in DOMAIN vendorApps
     THEN Step(s, [r EXCEPT !.pc = "write", !.reads = @ + 1, !.found = TRUE,
                            !.seenStatus = vendorApps[r.id].vendor_status,
                            !.seenEmail = vendorApps[r.id].email])
     ELSE Step(s, [r EXCEPT !.pc = "write", !.reads = @ + 1, !.found = FALSE])
  /\ UNCHANGED store

AlreadyDecidedApprovedOnly(vendor_status) == vendor_status = "approved"

\* vendor_status === "approved" || vendor_status === "rejected"
AlreadyDecided(vendor_status) == vendor_status \in {"approved", "rejected"}

\* After the findOne: the guards, then updateOne of the application's status.
VendorDecide(s) ==
  LET r == reqs[s] IN
  /\ r.pc = "write" /\ r.route = RVendorReq
  /\ IF ~r.found
     THEN Step(s, Respond(r, 404)) /\ UNCHANGED store
     ELSE IF AlreadyDecided(r.seenStatus)
     THEN Step(s, Respond(r, 400)) /\ UNCHANGED store
     ELSE /\ vendorApps' = IF r.id \in DOMAIN vendorApps
                           THEN [vendorApps EXCEPT ![r.id].vendor_status = r.bStatus]
                           ELSE vendorApps
          /\ IF r.bStatus = "approved"
             THEN Step(s, [r EXCEPT !.pc = "promote", !.writes = @ + 1])
             ELSE Step(s, Respond([r EXCEPT !.writes = @ + 1], 200))
          /\ UNCHANGED <<users, products, cart, wish, payments>>

\* usersCollection.updateOne({ email: vendorApplication.email }, { $set: { role: "vendor" } })
VendorPromote(s) ==
  LET r == reqs[s] IN
  /\ r.pc = "promote" /\ r.route = RVendorReq
  /\ users' = IF r.seenEmail \in DOMAIN users /\ users[r.seenEmail] # Undefined
              THEN [users EXCEPT ![r.seenEmail] = "vendor"]
              ELSE users
  /\ Step(s, Respond([r EXCEPT !.writes = @ + 1], 200))
  /\ UNCHANGED <<vendorApps, products, cart, wish, payments>>

\* --------------------------------------------------------------- payment
\* JS numbers: money is counted in mills (1/1000 dollar), NaN is its own value.
Num(v) == [nan |-> FALSE, v |-> v]
NaN == [nan |-> TRUE, v |-> 0]

\* A stored or submitted value: num says whether it reads as a number; mills
\* (a price) or tenths (a quantity) is the number it reads as.
\* parseFloat(product.pricePerUnit), in mills.
ParseFloat(price) == IF price.num THEN Num(price.mills) ELSE NaN

\* parseInt(item.quantity): the integer part, the fraction is dropped.
ParseInt(quantity) ==
  IF ~quantity.num THEN NaN
  ELSE IF quantity.tenths >= 0 THEN Num(quantity.tenths \div 10)
  ELSE Num(-((-quantity.tenths) \div 10))

UnitPriceFromBody(item, product) == ParseFloat(item.price)

\* const productPrice = parseFloat(product.pricePerUnit)
UnitPrice(item, product) == ParseFloat(product.pricePerUnit)

\* Math.round(totalAmount * 100): dollars to cents, halves rounded up; the
\* total is held in mills.
ToCents(mills) == (mills + 5) \div 10

MinCharge == 50

\* The for-loop over items from position i with running total (mills):
\* the response code it returns early with, or 0 and the total.
RECURSIVE PriceItems(_, _, _)
PriceItems(items, i, total) ==
  IF i > Len(items) THEN [code |-> 0, total |-> total]
  ELSE IF items[i].productId \notin DOMAIN products
  THEN [code |-> 404, total |-> total]
  ELSE LET productPrice == UnitPrice(items[i], products[items[i].productId])
           itemQuantity == ParseInt(items[i].quantity) IN
       IF productPrice.nan \/ itemQuantity.nan
       THEN [code |-> 400, total |-> total]
       ELSE PriceItems(items, i + 1, total + productPrice.v * itemQuantity.v)

\* POST /create-payment-intent-cart: validate, price from the product store,
\* and call stripe.paymentIntents.create once; the provider answers or throws.
PayCart(s) ==
  LET r == reqs[s]
      priced == PriceItems(r.bItems, 1, 0)
      n == Len(r.bItems)
      amount == ToCents(priced.total) IN
  /\ r.pc = "handler" /\ r.route = RPayCart
  /\ IF n = 0
     THEN Step(s, Respond(r, 400))
     ELSE IF priced.code # 0
     THEN Step(s, Respond([r EXCEPT !.reads = n], priced.code))
     ELSE IF amount < MinCharge
     THEN Step(s, Respond([r EXCEPT !.reads = n], 400))
     ELSE \E ok \in BOOLEAN :
            Step(s, Respond([r EXCEPT !.reads = n, !.calls = @ + 1, !.amount = amount],
                            IF ok THEN 200 ELSE 500))
  /\ UNCHANGED store

\* !price || isNaN(price): the price is absent, zero or not a number.
InvalidPrice(price) == ~price.given \/ ~price.num \/ price.mills = 0

\* POST /create-payment-intent: validate the body's price and call
\* stripe.paymentIntents.create with amount Math.round(price * 100); the
\* provider answers or throws.
PayIntent(s) ==
  LET r == reqs[s] IN
  /\ r.pc = "handler" /\ r.route = RPayIntent
  /\ IF InvalidPrice(r.more.price)
     THEN Step(s, Respond(r, 400))
     ELSE \E ok \in BOOLEAN :
            Step(s, Respond([r EXCEPT !.calls = @ + 1,
                                      !.amount = ToCents(r.more.price.mills)],
                            IF ok THEN 200 ELSE 500))
  /\ UNCHANGED store

\* ---------------------------------------------------------------- orders
\* payments is the sequence of payment documents in insertion order.  A
\* document: id (_id), buyerEmail, status, paidAt, paymentIntentId, items
\* (hasItems: the field is present), and cartItems and price as POST
\* /create-order stores them.  A line item: productId (0: absent), price and
\* pricePerUnit in mills (0: absent or zero), quantity (0: absent or zero)
\* and itemName ("": absent).
\* A payment document without a price field.
NoTotal == [given |-> FALSE, nan |-> FALSE, v |-> 0]

\* paymentCollection.find({ status: "paid" }).toArray()
PaidPayments == SelectSeq(payments, LAMBDA p : p.status = "paid")

\* parseInt(req.query.page) || 1, parseInt(req.query.limit) || 7
OrDefault(n, default) == IF n = 0 THEN default ELSE n

\* Math.ceil(total / limit)
CeilDiv(total, limit) ==
  IF limit > 0 THEN -((-total) \div limit) ELSE -(total \div (-limit))

\* a relative index of array.slice: a negative one counts from the end, and
\* the result is kept within 0..length
SliceIndex(i, length) ==
  IF i < 0 THEN (IF length + i < 0 THEN 0 ELSE length + i)
  ELSE IF i > length THEN length ELSE i

\* array.slice(from, to)
Slice(seq, from, to) ==
  SubSeq(seq, SliceIndex(from, Len(seq)) + 1, SliceIndex(to, Len(seq)))

\* a || b || c on numbers
FirstTruthy(a, b, c) == IF a # 0 THEN a ELSE IF b # 0 THEN b ELSE c

\* a || b || c on strings
FirstName(a, b, c) == IF ~Falsy(a) THEN a ELSE IF ~Falsy(b) THEN b ELSE c

\* productCollections.findOne({ _id }): null is modelled by Found = FALSE
FindProduct(productId) ==
  IF productId \in DOMAIN products
  THEN [Found |-> TRUE, doc |-> products[productId]]
  ELSE [Found |-> FALSE, doc |-> [vendorEmail |-> Undefined, itemName |-> Undefined]]

SkipItemOnlyIfMissing(product, vendorEmail) == ~product.Found

\* !product || product.vendorEmail !== vendorEmail
SkipItem(product, vendorEmail) ==
  ~product.Found \/ product.doc.vendorEmail # vendorEmail

\* GET /vendor/orders: the inner loop over payment.items from position j.
RECURSIVE VendorItemOrders(_, _, _)
VendorItemOrders(payment, j, vendorEmail) ==
  IF j > Len(payment.items) THEN <<>>
  ELSE LET item == payment.items[j]
           product == FindProduct(item.productId)
           rest == VendorItemOrders(payment, j + 1, vendorEmail) IN
       IF SkipItem(product, vendorEmail) THEN rest
       ELSE <<[orderId |-> payment.id, line |-> j,
               price |-> FirstTruthy(item.price, item.pricePerUnit, 0),
               buyerEmail |-> payment.buyerEmail, status |-> payment.status,
               productId |-> item.productId,
               productName |-> FirstName(product.doc.itemName, item.itemName,
                                         "Unknown Product"),
               vendorEmail |-> product.doc.vendorEmail,
               quantity |-> OrDefault(item.quantity, 1)]>> \o rest

\* GET /vendor/orders: the outer loop over the paid payments from position i.
RECURSIVE VendorOrdersFrom(_, _, _)
VendorOrdersFrom(pays, i, vendorEmail) ==
  IF i > Len(pays) THEN <<>>
  ELSE VendorItemOrders(pays[i], 1, vendorEmail)
         \o VendorOrdersFrom(pays, i + 1, vendorEmail)

\* GET /vendor/orders: iterating the absent items of a paid payment throws
\* (500); otherwise the vendor's records are sliced to the page.
VendorOrders(s) ==
  LET r == reqs[s]
      paid == PaidPayments
      limit == OrDefault(r.more.limit, 7)
      skip == (OrDefault(r.more.page, 1) - 1) * limit
      orders == VendorOrdersFrom(paid, 1, r.qEmail) IN
  /\ r.pc = "handler" /\ r.route = RVendorOrders
  /\ IF \E i \in DOMAIN paid : ~paid[i].hasItems
     THEN Step(s, Respond([r EXCEPT !.reads = @ + 1], 500))
     ELSE Step(s, Respond([r EXCEPT !.reads = @ + 1,
                                    !.out = Slice(orders, skip, skip + limit),
                                    !.totalPages = CeilDiv(Len(orders), limit)],
                          200))
  /\ UNCHANGED store

\* product?.vendorEmail || "N/A"
OrNA(v) == IF Falsy(v) THEN "N/A" ELSE v

\* GET /admin/orders: the records pushed for payment.items from position j
\* (every product found).
RECURSIVE AdminItemOrders(_, _)
AdminItemOrders(payment, j) ==
  IF j > Len(payment.items) THEN <<>>
  ELSE LET item == payment.items[j]
           product == FindProduct(item.productId) IN
       <<[id |-> item.productId, orderId |-> payment.id, line |-> j,
          price |-> FirstTruthy(item.price, item.pricePerUnit, 0),
          buyerEmail |-> payment.buyerEmail, status |-> payment.status,
          productId |-> item.productId,
          productName |-> FirstName(product.doc.itemName, item.itemName,
                                    "Unknown Product"),
          vendorEmail |-> OrNA(product.doc.vendorEmail),
          quantity |-> OrDefault(item.quantity, 1)]>>
         \o AdminItemOrders(payment, j + 1)

RECURSIVE AdminOrdersFrom(_, _)
AdminOrdersFrom(pays, i) ==
  IF i > Len(pays) THEN <<>>
  ELSE AdminItemOrders(pays[i], 1) \o AdminOrdersFrom(pays, i + 1)

\* Building the records of these payments throws: payment.items is absent
\* (not iterable), or a line's product is null where product._id is read.
AdminOrdersThrow(pays) ==
  \E i \in DOMAIN pays :
    \/ ~pays[i].hasItems
    \/ \E j \in DOMAIN pays[i].items : ~FindProduct(pays[i].items[j].productId).Found

\* GET /admin/orders: the records of the requested page of paid payments;
\* an exception is answered 500.
AdminOrders(s) ==
  LET r == reqs[s]
      limit == OrDefault(r.more.limit, 7)
      skip == (OrDefault(r.more.page, 1) - 1) * limit
      page == Slice(PaidPayments, skip, skip + limit) IN
  /\ r.pc = "handler" /\ r.route = RAdminOrders
  /\ IF AdminOrdersThrow(page)
     THEN Step(s, Respond([r EXCEPT !.reads = @ + 1], 500))
     ELSE Step(s, Respond([r EXCEPT !.reads = @ + 1,
                                    !.out = AdminOrdersFrom(page, 1)], 200))
  /\ UNCHANGED store

OrdersFilterPaidOnly(payment, email) == payment.status = "paid"

\* paymentCollection.find({ buyerEmail: email, status: "paid" })
OrdersFilter(payment, email) ==
  payment.buyerEmail = email /\ payment.status = "paid"

OrderItemPriceFromProduct(item, productDetails) ==
  IF productDetails.Found THEN productDetails.doc.pricePerUnit.mills ELSE 0

\* parseFloat(item.price || item.pricePerUnit || 0), in mills
OrderItemPrice(item, productDetails) == FirstTruthy(item.price, item.pricePerUnit, 0)

\* GET /orders: processedItems, the map over itemsArray from position j.
\* An item without productId keeps productDetails = {}.
RECURSIVE ProcessedItems(_, _)
ProcessedItems(itemsArray, j) ==
  IF j > Len(itemsArray) THEN <<>>
  ELSE LET item == itemsArray[j]
           productDetails == FindProduct(item.productId) IN
       <<[product_id |-> item.productId,
          price |-> OrderItemPrice(item, productDetails),
          quantity |-> OrDefault(item.quantity, 1),
          productName |-> FirstName(productDetails.doc.itemName, item.itemName,
                                    "Unknown")]>>
         \o ProcessedItems(itemsArray, j + 1)

\* processedItems.reduce((sum, item) => sum + item.price * item.quantity, 0)
RECURSIVE TotalAmount(_, _)
TotalAmount(processedItems, j) ==
  IF j > Len(processedItems) THEN 0
  ELSE processedItems[j].price * processedItems[j].quantity
         + TotalAmount(processedItems, j + 1)

\* GET /orders: the record of one payment; the minimal summary when the
\* payment has no items array or an empty one.
OrderRecord(payment) ==
  LET itemsArray == IF payment.hasItems THEN payment.items ELSE <<>>
      processedItems == ProcessedItems(itemsArray, 1) IN
  IF Len(itemsArray) = 0
  THEN [id |-> payment.id, email |-> payment.buyerEmail, status |-> payment.status,
        paidAt |-> payment.paidAt, minimal |-> TRUE, items |-> <<>>,
        totalAmount |-> 0]
  ELSE [id |-> payment.id, email |-> payment.buyerEmail, status |-> payment.status,
        paidAt |-> payment.paidAt, minimal |-> FALSE, items |-> processedItems,
        totalAmount |-> TotalAmount(processedItems, 1)]

\* GET /orders: ordersWithProducts, one record per payment found.
OrdersWithProducts(email) ==
  LET found == SelectSeq(payments, LAMBDA p : OrdersFilter(p, email)) IN
  [k \in DOMAIN found |-> OrderRecord(found[k])]

\* GET /orders handler.
Orders(s) ==
  LET r == reqs[s] IN
  /\ r.pc = "handler" /\ r.route = ROrders
  /\ Step(s, Respond([r EXCEPT !.reads = @ + 1,
                               !.out = OrdersWithProducts(r.qEmail)], 200))
  /\ UNCHANGED store

\* new Date() at the time of the request
Now == "now"

SpreadBodyLast(status, paidAt) ==
  [paidAt |-> IF paidAt = Undefined THEN Now ELSE paidAt,
   status |-> IF status = Undefined THEN "paid" ELSE status]

\* { ...paymentData, paidAt: new Date(), status: "paid" }: the two fields
\* written after the spread of the body, whose status and paidAt are given.
PaidStamp(status, paidAt) == [paidAt |-> Now, status |-> "paid"]

\* POST /save-payment: 400 without paymentIntentId, else insertOne(doc).
SavePayment(s) ==
  LET r == reqs[s]
      stamp == PaidStamp(r.bStatus, r.more.paidAt)
      doc == [id |-> NewId(payments), buyerEmail |-> r.bEmail,
              status |-> stamp.status, paidAt |-> stamp.paidAt,
              paymentIntentId |-> r.more.paymentIntentId,
              hasItems |-> r.more.hasItems, items |-> r.bItems,
              cartItems |-> <<>>, price |-> NoTotal] IN
  /\ r.pc = "handler" /\ r.route = RSavePayment
  /\ Falsy(r.more.paymentIntentId) \/ Len(payments) < MaxPay
  /\ IF Falsy(r.more.paymentIntentId)
     THEN /\ payments' = payments
          /\ Step(s, Respond(r, 400))
     ELSE /\ payments' = Append(payments, doc)
          /\ Step(s, Respond([r EXCEPT !.writes = @ + 1], 200))
  /\ UNCHANGED <<users, vendorApps, products, cart, wish>>

RowTotalUnitPrice(row) ==
  IF row.pricePerUnit.given /\ row.pricePerUnit.num
  THEN Num(row.pricePerUnit.mills)
  ELSE NaN

\* item.pricePerUnit * (item.quantity || 1): NaN when the row's pricePerUnit
\* is absent or not numeric.
RowTotal(row) ==
  IF row.pricePerUnit.given /\ row.pricePerUnit.num
  THEN Num(row.pricePerUnit.mills * OrDefault(row.quantity, 1))
  ELSE NaN

\* cartItems.reduce((sum, item) => sum + ..., 0) from position j.
RECURSIVE TotalPrice(_, _, _)
TotalPrice(cartItems, j, sum) ==
  IF j > Len(cartItems) THEN sum
  ELSE LET t == RowTotal(cartItems[j]) IN
       TotalPrice(cartItems, j + 1,
                  IF sum.nan \/ t.nan THEN NaN ELSE Num(sum.v + t.v))

\* POST /create-order: the cart rows of the body's buyerEmail; 400 when
\* there is none, else insertOne(newOrder).
CreateOrder(s) ==
  LET r == reqs[s]
      cartItems == SelectSeq(cart, LAMBDA row : row.buyerEmail = r.bEmail)
      totalPrice == TotalPrice(cartItems, 1, Num(0))
      newOrder == [id |-> NewId(payments), buyerEmail |-> r.bEmail,
                   status |-> "pending", paidAt |-> Undefined,
                   paymentIntentId |-> Undefined, hasItems |-> FALSE,
                   items |-> <<>>, cartItems |-> cartItems,
                   price |-> [given |-> TRUE, nan |-> totalPrice.nan,
                              v |-> totalPrice.v]] IN
  /\ r.pc = "handler" /\ r.route = RCreateOrder
  /\ Len(cartItems) = 0 \/ Len(payments) < MaxOrders
  /\ IF Len(cartItems) = 0
     THEN /\ payments' = payments
          /\ Step(s, Respond([r EXCEPT !.reads = @ + 1], 400))
     ELSE /\ payments' = Append(payments, newOrder)
          /\ Step(s, Respond([r EXCEPT !.reads = @ + 1, !.writes = @ + 1], 201))
  /\ UNCHANGED <<users, vendorApps, products, cart, wish>>

\* { $set: { ...req.body } }: the document with every field the body
\* carries (pricePerUnit, status) replaced by the body's value.
SetBody(doc, r) ==
  [doc EXCEPT !.pricePerUnit = IF r.more.price.given
                               THEN [num |-> r.more.price.num,
                                     mills |-> r.more.price.mills]
                               ELSE @,
              !.status = IF r.bStatus # Undefined THEN r.bStatus ELSE @]

\* PATCH /modify-product/:id: updateOne({ _id }, { $set: { ...req.body } }).
\* modifiedCount is 0 when no product has the id or the product already has
\* the values.
ModifyProduct(s) ==
  LET r == reqs[s] IN
  /\ r.pc = "handler" /\ r.route = RModifyProduct
  /\ IF r.id \in DOMAIN products /\ SetBody(products[r.id], r) # products[r.id]
     THEN /\ products' = [products EXCEPT ![r.id] = SetBody(@, r)]
          /\ Step(s, Respond([r EXCEPT !.writes = @ + 1], 200))
     ELSE /\ products' = products
          /\ Step(s, Respond(r, 404))
  /\ UNCHANGED <<users, vendorApps, cart, wish, payments>>

\* DELETE /delete-products/:id: deleteOne({ _id }), the result is sent.
DeleteProducts(s) ==
  LET r == reqs[s] IN
  /\ r.pc = "handler" /\ r.route = RDeleteProducts
  /\ products' = [k \in DOMAIN products \ {r.id} |-> products[k]]
  /\ Step(s, Respond([r EXCEPT !.writes = @ + 1], 200))
  /\ UNCHANGED <<users, vendorApps, cart, wish, payments>>

\* -------------------------------------------------------------- products
\* products maps _id to the product document: vendorEmail, itemName, status,
\* pricePerUnit, and where the route uses them createdAt, date,
\* rejectionReason and rejectionFeedback (Undefined: the field is absent).
\* { $regex: `^${date}` }: the stored date starts with the query's date.
DateMatches(stored, date) ==
  Len(date) <= Len(stored) /\ SubSeq(stored, 1, Len(date)) = date

\* The documents selected by query = { status: "approved" } and, if the
\* request has a date, date: { $regex }.
ApprovedMatching(date) ==
  {i \in DOMAIN products :
     /\ products[i].status = "approved"
     /\ date # <<>> => DateMatches(products[i].date, date)}

\* Document a may come before document b under sortOptions: createdAt
\* descending, or pricePerUnit ascending ("asc") or descending ("desc").
MayPrecede(a, b, sort) ==
  CASE sort = "asc" -> a.pricePerUnit.mills <= b.pricePerUnit.mills
    [] sort = "desc" -> a.pricePerUnit.mills >= b.pricePerUnit.mills
    [] OTHER -> a.createdAt >= b.createdAt

\* The orders in which find(query).sort(sortOptions) may deliver the ids:
\* documents with equal sort keys come in either order.
SortedOrders(ids, sort) ==
  {f \in [1..Cardinality(ids) -> ids] :
     /\ \A i, j \in DOMAIN f : i # j => f[i] # f[j]
     /\ \A i, j \in DOMAIN f : i < j => MayPrecede(products[f[i]], products[f[j]], sort)}

\* GET /approved-products: the page of the approved products in sort order.
ApprovedProducts(s) ==
  LET r == reqs[s]
      limit == OrDefault(r.more.limit, 9)
      skip == (OrDefault(r.more.page, 1) - 1) * limit
      sort == IF Falsy(r.more.sort) THEN "newest" ELSE r.more.sort IN
  /\ r.pc = "handler" /\ r.route = RApprovedProducts
  /\ \E order \in SortedOrders(ApprovedMatching(r.more.date), sort) :
       Step(s, Respond([r EXCEPT !.reads = @ + 1,
                                 !.out = [k \in DOMAIN Slice(order, skip, skip + limit) |->
                                            [id |-> order[skip + k],
                                             doc |-> products[order[skip + k]]]]],
                       200))
  /\ UNCHANGED store

ApprovalUpdateSetOnly(doc, status) == [doc EXCEPT !.status = status]

\* updatedDoc: { $set: { status } }, with $unset of rejectionFeedback and
\* rejectionReason when status is "approved".
ApprovalUpdate(doc, status) ==
  IF status = "approved"
  THEN [doc EXCEPT !.status = status, !.rejectionFeedback = Undefined,
                   !.rejectionReason = Undefined]
  ELSE [doc EXCEPT !.status = status]

\* PATCH /approve-product/:productId: the result of updateOne is sent whether
\* or not a product matched.
ApproveProduct(s) ==
  LET r == reqs[s] IN
  /\ r.pc = "handler" /\ r.route = RApproveProduct
  /\ IF Falsy(r.bStatus)
     THEN /\ products' = products
          /\ Step(s, Respond(r, 400))
     ELSE /\ products' = IF r.id \in DOMAIN products
                         THEN [products EXCEPT ![r.id] = ApprovalUpdate(@, r.bStatus)]
                         ELSE products
          /\ Step(s, Respond([r EXCEPT !.writes = @ + 1], 200))
  /\ UNCHANGED <<users, vendorApps, cart, wish, payments>>

\* The _id insertOne gives a new product: one no product has.
NewProductId == CHOOSE id \in 1..MaxProducts : id \notin DOMAIN products

\* POST /add-products: insertOne({ ...req.body, createdAt, updatedAt }); the
\* body carries vendorEmail, itemName, status, pricePerUnit and date.
AddProducts(s) ==
  LET r == reqs[s]
      data == [vendorEmail |-> r.bEmail, itemName |-> "rice", status |-> r.bStatus,
               pricePerUnit |-> [num |-> r.more.price.num,
                                 mills |-> r.more.price.mills],
               createdAt |-> NewProductId, date |-> r.more.date,
               rejectionReason |-> Undefined, rejectionFeedback |-> Undefined] IN
  /\ r.pc = "handler" /\ r.route = RAddProducts
  /\ Cardinality(DOMAIN products) < MaxProducts
  /\ products' = (NewProductId :> data) @@ products
  /\ Step(s, Respond([r EXCEPT !.writes = @ + 1], 201))
  /\ UNCHANGED <<users, vendorApps, cart, wish, payments>>

\* A body field written by $set: an absent field is stored as null.
Null == "<null>"
Stored(v) == IF v = Undefined THEN Null ELSE v

\* PATCH /reject-product/:id: $set status, rejectionReason, rejectionFeedback;
\* 400 when modifiedCount is 0.
RejectProduct(s) ==
  LET r == reqs[s]
      after == [products[r.id] EXCEPT !.status = "rejected",
                                      !.rejectionReason = Stored(r.more.reason),
                                      !.rejectionFeedback = Stored(r.more.feedback)] IN
  /\ r.pc = "handler" /\ r.route = RRejectProduct
  /\ IF r.id \in DOMAIN products /\ after # products[r.id]
     THEN /\ products' = [products EXCEPT ![r.id] = after]
          /\ Step(s, Respond([r EXCEPT !.writes = @ + 1], 200))
     ELSE /\ products' = products
          /\ Step(s, Respond(r, 400))
  /\ UNCHANGED <<users, vendorApps, cart, wish, payments>>

\* ================================================================ SpecAuth
\* The access-control pipeline in front of five routes, one request at a time.
Directory ==
  (UserMail :> "user") @@ (VendorMail :> "vendor") @@ (AdminMail :> "admin")
    @@ (GhostMail :> Undefined) @@ (Vendor2Mail :> "vendor")

AuthHeaders ==
  {<<>>, <<"Bearer">>, <<"Basic", "tok-admin">>, <<"Bearer", "", "tok-admin">>}
    \cup {<<"Bearer", t>> : t \in SignedTokens \cup ForgedTokens}

AuthRequests ==
  {Input(RUsers, h, q, Undefined, 0, 0, Undefined, Undefined, NoItems, FALSE) :
     h \in AuthHeaders, q \in Emails \cup {Undefined}}
  \cup
  {Input(RAllProducts, h, q, Undefined, 0, 0, Undefined, Undefined, NoItems, FALSE) :
     h \in AuthHeaders, q \in Emails \cup {Undefined}}
  \cup
  {Input(RGetCart, h, q, Undefined, 0, 0, Undefined, Undefined, NoItems, FALSE) :
     h \in AuthHeaders, q \in Emails \cup {Undefined}}
  \cup
  {Input(RCart, h, q, Undefined, 0, 1, UserMail, Undefined, NoItems, FALSE) :
     h \in AuthHeaders, q \in Emails \cup {Undefined}}
  \cup
  {Input(RVendorReq, h, q, Undefined, id, 0, Undefined, st, NoItems, FALSE) :
     h \in AuthHeaders, q \in Emails \cup {Undefined}, id \in {1, 2},
     st \in {"approved", "rejected"}}

InitAuth ==
  /\ users = Directory
  /\ vendorApps = (1 :> [email |-> UserMail, vendor_status |-> "pending"])
                    @@ (2 :> [email |-> AdminMail, vendor_status |-> "pending"])
  /\ products = <<>>
  /\ cart = <<>>
  /\ wish = <<>>
  /\ payments = <<>>
  /\ reqs = [s \in Slots |-> IdleReq]
  /\ hist = <<>>

NextAuth ==
  \/ Quiet /\ \E in \in AuthRequests : BeginSeq(in)
  \/ \E s \in Slots :
       \/ Retire(s)
       \/ VerifyToken(s)
       \/ VerifyTokenEmail(s)
       \/ VerifyRole(s)
       \/ UsersHandler(s)
       \/ AllProductsHandler(s)
       \/ GetCartHandler(s)
       \/ CartFind(s)
       \/ CartWrite(s)
       \/ VendorFind(s)
       \/ VendorDecide(s)
       \/ VendorPromote(s)

SpecAuth == InitAuth /\ [][NextAuth]_vars

\* ================================================================ SpecWish
\* POST /wishlist requests, one at a time, on an empty wishlist.
WishRequests ==
  {Input(RWishlist, <<>>, q, Undefined, 0, p, Undefined, Undefined, NoItems, TRUE) :
     q \in {UserMail, VendorMail, Undefined, ""}, p \in {0, 1, 2}}
  \cup
  {Input(RWishlist, <<"Bearer", "tok-user">>, UserMail, Undefined, 0, 1,
         Undefined, Undefined, NoItems, TRUE)}

InitWish ==
  /\ users = Directory
  /\ vendorApps = <<>>
  /\ products = <<>>
  /\ cart = <<>>
  /\ wish = <<>>
  /\ payments = <<>>
  /\ reqs = [s \in Slots |-> IdleReq]
  /\ hist = <<>>

NextWish ==
  \/ Quiet /\ \E in \in WishRequests : BeginSeq(in)
  \/ \E s \in Slots :
       \/ Retire(s)
       \/ WishFind(s)
       \/ WishInsert(s)

SpecWish == InitWish /\ [][NextWish]_vars

\* ================================================================ SpecCart
\* POST /cart requests, one at a time, on an empty cart.
Callers ==
  {[header |-> <<"Bearer", "tok-user">>, qEmail |-> UserMail],
   [header |-> <<"Bearer", "tok-vendor">>, qEmail |-> VendorMail]}

\* Callers the pipeline turns away: no header, a forged token, another
\* user's email in the query.
BadCallers ==
  {[header |-> <<>>, qEmail |-> UserMail],
   [header |-> <<"Bearer", "tok-forged">>, qEmail |-> AdminMail],
   [header |-> <<"Bearer", "tok-user">>, qEmail |-> VendorMail]}

CartRequests ==
  {Input(RCart, c.header, c.qEmail, Undefined, 0, p, b, Undefined, NoItems, TRUE) :
     c \in Callers, p \in {1, 2}, b \in {UserMail, VendorMail}}
  \cup
  {Input(RCart, c.header, c.qEmail, Undefined, 0, 1, UserMail, Undefined, NoItems, TRUE) :
     c \in BadCallers}

InitCart ==
  /\ users = Directory
  /\ vendorApps = <<>>
  /\ products = <<>>
  /\ cart = <<>>
  /\ wish = <<>>
  /\ payments = <<>>
  /\ reqs = [s \in Slots |-> IdleReq]
  /\ hist = <<>>

NextCart ==
  \/ Quiet /\ \E in \in CartRequests : BeginSeq(in)
  \/ \E s \in Slots :
       \/ Retire(s)
       \/ VerifyToken(s)
       \/ VerifyTokenEmail(s)
       \/ CartFind(s)
       \/ CartWrite(s)

SpecCart == InitCart /\ [][NextCart]_vars

\* ============================================================= SpecCartUpd
\* PATCH /cart/update/:itemId requests, one at a time, on a cart of two rows
\* (row 1 of the user, row 2 of the vendor) as POST /cart leaves them.
CartUpdRequests ==
  {Input(RCartUpdate, c.header, c.qEmail, a, id, 0, Undefined, Undefined, NoItems, FALSE) :
     c \in Callers \cup BadCallers,
     a \in {"increase", "decrease", "reset", Undefined}, id \in {1, 2, 3}}

InitCartUpd ==
  /\ users = Directory
  /\ vendorApps = <<>>
  /\ products = <<>>
  /\ \E q1, q2 \in 1..2 :
       cart = <<[id |-> 1, buyerEmail |-> UserMail, productId |-> 1,
                 pricePerUnit |-> NoPrice, quantity |-> q1],
                [id |-> 2, buyerEmail |-> VendorMail, productId |-> 1,
                 pricePerUnit |-> NoPrice, quantity |-> q2]>>
  /\ wish = <<>>
  /\ payments = <<>>
  /\ reqs = [s \in Slots |-> IdleReq]
  /\ hist = <<>>

NextCartUpd ==
  \/ Quiet /\ \E in \in CartUpdRequests : BeginSeq(in)
  \/ \E s \in Slots :
       \/ Retire(s)
       \/ VerifyToken(s)
       \/ VerifyTokenEmail(s)
       \/ CartUpdFind(s)
       \/ CartUpdWrite(s)

SpecCartUpd == InitCartUpd /\ [][NextCartUpd]_vars

\* ============================================================== SpecVendor
\* PATCH /vendor-requests/:vendorId requests, one at a time, on two pending
\* applications (1: the user's, 2: one whose email has no user document).
\* Callers that are not the admin, or the admin with another email in the query.
NonAdminCallers ==
  {[header |-> <<"Bearer", "tok-user">>, qEmail |-> UserMail],
   [header |-> <<>>, qEmail |-> AdminMail],
   [header |-> <<"Bearer", "tok-admin">>, qEmail |-> UserMail]}

VendorRequests ==
  {Input(RVendorReq, <<"Bearer", "tok-admin">>, AdminMail, Undefined, id, 0,
         Undefined, st, NoItems, TRUE) :
     id \in {1, 2, 3}, st \in {"pending", "approved", "rejected", "banned"}}
  \cup
  {Input(RVendorReq, c.header, c.qEmail, Undefined, 1, 0, Undefined, "approved",
         NoItems, TRUE) : c \in NonAdminCallers}

InitVendor ==
  /\ users = Directory
  /\ vendorApps = (1 :> [email |-> UserMail, vendor_status |-> "pending"])
                    @@ (2 :> [email |-> GhostMail, vendor_status |-> "pending"])
  /\ products = <<>>
  /\ cart = <<>>
  /\ wish = <<>>
  /\ payments = <<>>
  /\ reqs = [s \in Slots |-> IdleReq]
  /\ hist = <<>>

NextVendor ==
  \/ Quiet /\ \E in \in VendorRequests : BeginSeq(in)
  \/ \E s \in Slots :
       \/ Retire(s)
       \/ VerifyToken(s)
       \/ VerifyTokenEmail(s)
       \/ VerifyRole(s)
       \/ VendorFind(s)
       \/ VendorDecide(s)
       \/ VendorPromote(s)

SpecVendor == InitVendor /\ [][NextVendor]_vars

\* ================================================================= SpecPay
\* POST /create-payment-intent-cart requests, one at a time, on a catalog of
\* four products priced $10.00, $5.50, $0.204 and "abc"; product 5 is absent.
Catalog ==
  (1 :> [vendorEmail |-> VendorMail, status |-> "approved",
         pricePerUnit |-> [num |-> TRUE, mills |-> 10000]])
  @@ (2 :> [vendorEmail |-> VendorMail, status |-> "approved",
            pricePerUnit |-> [num |-> TRUE, mills |-> 5500]])
  @@ (3 :> [vendorEmail |-> VendorMail, status |-> "approved",
            pricePerUnit |-> [num |-> TRUE, mills |-> 204]])
  @@ (4 :> [vendorEmail |-> VendorMail, status |-> "pending",
            pricePerUnit |-> [num |-> FALSE, mills |-> 0]])

\* Submitted quantities: 1, 2, 2.5, 0, -1 and "abc".
Quantities ==
  {[num |-> TRUE, tenths |-> t] : t \in {10, 20, 25, 0, -10}}
    \cup {[num |-> FALSE, tenths |-> 0]}

\* Prices a client may put in an item: $0.001 and $99.90.
ClientPrices == {[num |-> TRUE, mills |-> m] : m \in {1, 99900}}

PayItems ==
  {[productId |-> p, quantity |-> q, price |-> c] :
     p \in 1..5, q \in Quantities, c \in ClientPrices}

MaxItems == 2

ItemLists == UNION {[1..n -> PayItems] : n \in 0..MaxItems}

PayRequests ==
  {Input(RPayCart, <<"Bearer", "tok-user">>, UserMail, Undefined, 0, 0, UserMail,
         Undefined, items, FALSE) : items \in ItemLists}
  \cup
  {Input(RPayCart, c.header, c.qEmail, Undefined, 0, 0, UserMail, Undefined,
         <<[productId |-> 1, quantity |-> [num |-> TRUE, tenths |-> 10],
            price |-> [num |-> TRUE, mills |-> 1]]>>, FALSE) :
     c \in BadCallers \cup {[header |-> <<"Bearer", "tok-vendor">>, qEmail |-> VendorMail]}}

InitPay ==
  /\ users = Directory
  /\ vendorApps = <<>>
  /\ products = Catalog
  /\ cart = <<>>
  /\ wish = <<>>
  /\ payments = <<>>
  /\ reqs = [s \in Slots |-> IdleReq]
  /\ hist = <<>>

NextPay ==
  \/ Quiet /\ \E in \in PayRequests : BeginSeq(in)
  \/ \E s \in Slots :
       \/ Retire(s)
       \/ VerifyToken(s)
       \/ VerifyTokenEmail(s)
       \/ VerifyRole(s)
       \/ PayCart(s)

SpecPay == InitPay /\ [][NextPay]_vars

\* ============================================================== SpecPayOne
\* POST /create-payment-intent requests, one at a time, on the catalog;
\* the body prices are absent, 0, "abc", $10.00 and $99.90.
BodyPrices ==
  {NoPrice, [num |-> FALSE, mills |-> 0, given |-> TRUE]}
    \cup {[num |-> TRUE, mills |-> m, given |-> TRUE] : m \in {0, 10000, 99900}}

PayOneRequests ==
  {WithMore(Input(RPayIntent, <<"Bearer", "tok-user">>, UserMail, Undefined, 0, p,
                  UserMail, Undefined, NoItems, TRUE), [NoMore EXCEPT !.price = c]) :
     p \in {1, 2, 5}, c \in BodyPrices}
  \cup
  {WithMore(Input(RPayIntent, c.header, c.qEmail, Undefined, 0, 1, UserMail,
                  Undefined, NoItems, TRUE),
            [NoMore EXCEPT !.price = [num |-> TRUE, mills |-> 10000, given |-> TRUE]]) :
     c \in BadCallers \cup {[header |-> <<"Bearer", "tok-vendor">>, qEmail |-> VendorMail]}}

InitPayOne ==
  /\ users = Directory
  /\ vendorApps = <<>>
  /\ products = Catalog
  /\ cart = <<>>
  /\ wish = <<>>
  /\ payments = <<>>
  /\ reqs = [s \in Slots |-> IdleReq]
  /\ hist = <<>>

NextPayOne ==
  \/ Quiet /\ \E in \in PayOneRequests : BeginSeq(in)
  \/ \E s \in Slots :
       \/ Retire(s)
       \/ VerifyToken(s)
       \/ VerifyTokenEmail(s)
       \/ VerifyRole(s)
       \/ PayIntent(s)

SpecPayOne == InitPayOne /\ [][NextPayOne]_vars

\* ============================================================== SpecOrders
\* The order views, one request at a time, over stored payments, while
\* products are modified and deleted.  Products: 1 "rice" of vendor@mp at
\* $10.00, 2 "oil" of vendor2@mp at $5.50; no product has id 5.
Shelf ==
  (1 :> [vendorEmail |-> VendorMail, itemName |-> "rice", status |-> "approved",
         pricePerUnit |-> [num |-> TRUE, mills |-> 10000]])
  @@ (2 :> [vendorEmail |-> Vendor2Mail, itemName |-> "oil", status |-> "approved",
            pricePerUnit |-> [num |-> TRUE, mills |-> 5500]])

LineItem(productId, price, quantity, itemName) ==
  [productId |-> productId, price |-> price, pricePerUnit |-> 0,
   quantity |-> quantity, itemName |-> itemName]

PaymentDoc(id, buyerEmail, status, hasItems, items) ==
  [id |-> id, buyerEmail |-> buyerEmail, status |-> status,
   paidAt |-> IF status = "paid" THEN "now" ELSE Undefined,
   paymentIntentId |-> "pi", hasItems |-> hasItems, items |-> items,
   cartItems |-> <<>>, price |-> NoTotal]

\* Payments as POST /save-payment stores them (status paid), and payment 2
\* still pending; payment 4 has an empty items list, payment 5 none.
Ledger ==
  <<PaymentDoc(1, UserMail, "paid", TRUE,
               <<LineItem(1, 10000, 2, "rice"), LineItem(2, 5500, 1, "oil")>>),
    PaymentDoc(2, UserMail, "pending", TRUE, <<LineItem(1, 10000, 1, "rice")>>),
    PaymentDoc(3, VendorMail, "paid", TRUE,
               <<LineItem(2, 5500, 3, ""), LineItem(5, 204, 0, ""),
                 LineItem(1, 0, 1, "rice")>>),
    PaymentDoc(4, UserMail, "paid", TRUE, <<>>),
    PaymentDoc(5, UserMail, "paid", FALSE, <<>>)>>

OrderCallers ==
  {[header |-> <<"Bearer", JwtSign(e)>>, qEmail |-> e] :
     e \in {UserMail, VendorMail, Vendor2Mail, AdminMail}}
  \cup {[header |-> <<"Bearer", "tok-vendor">>, qEmail |-> Vendor2Mail]}

OrdersRequests ==
  {WithMore(Input(RVendorOrders, c.header, c.qEmail, Undefined, 0, 0, Undefined,
                  Undefined, NoItems, FALSE),
            [NoMore EXCEPT !.page = pg, !.limit = lm]) :
     c \in OrderCallers, pg \in {-1, 0, 1, 2}, lm \in {-1, 0, 1, 2}}
  \cup
  {WithMore(Input(RAdminOrders, c.header, c.qEmail, Undefined, 0, 0, Undefined,
                  Undefined, NoItems, FALSE),
            [NoMore EXCEPT !.page = pg, !.limit = lm]) :
     c \in OrderCallers, pg \in {0, 1, 2}, lm \in {0, 1, 2}}
  \cup
  {Input(ROrders, c.header, c.qEmail, Undefined, 0, 0, Undefined, Undefined,
         NoItems, FALSE) : c \in OrderCallers}
  \cup
  {WithMore(Input(RModifyProduct, <<"Bearer", "tok-vendor">>, VendorMail, Undefined,
                  id, 0, Undefined, Undefined, NoItems, FALSE),
            [NoMore EXCEPT !.price = [num |-> TRUE, mills |-> 12000, given |-> TRUE]]) :
     id \in {1, 2, 5}}
  \cup
  {Input(RDeleteProducts, c.header, c.qEmail, Undefined, id, 0, Undefined,
         Undefined, NoItems, FALSE) :
     c \in OrderCallers, id \in {1, 2}}

InitOrders ==
  /\ users = Directory
  /\ vendorApps = <<>>
  /\ products = Shelf
  /\ cart = <<>>
  /\ wish = <<>>
  /\ \E drop \in SUBSET {3, 4, 5} :
       payments = SelectSeq(Ledger, LAMBDA p : p.id \notin drop)
  /\ reqs = [s \in Slots |-> IdleReq]
  /\ hist = <<>>

NextOrders ==
  \/ Quiet /\ \E in \in OrdersRequests : BeginSeq(in)
  \/ \E s \in Slots :
       \/ Retire(s)
       \/ VerifyToken(s)
       \/ VerifyTokenEmail(s)
       \/ VerifyRole(s)
       \/ VendorOrders(s)
       \/ AdminOrders(s)
       \/ Orders(s)
       \/ ModifyProduct(s)
       \/ DeleteProducts(s)

SpecOrders == InitOrders /\ [][NextOrders]_vars

\* ============================================================= SpecProduct
\* Product moderation and the public listing, one request at a time.
\* Product 1 is pending, 2 approved, 3 rejected with reason and feedback; 2
\* and 3 have the same price.
ProductDoc(status, mills, createdAt, date, reason, feedback) ==
  [vendorEmail |-> VendorMail, itemName |-> "rice", status |-> status,
   pricePerUnit |-> [num |-> TRUE, mills |-> mills], createdAt |-> createdAt,
   date |-> date, rejectionReason |-> reason, rejectionFeedback |-> feedback]

Moderated ==
  (1 :> ProductDoc("pending", 10000, 1, <<"2025", "07", "01">>, Undefined, Undefined))
  @@ (2 :> ProductDoc("approved", 5500, 2, <<"2025", "07", "02">>, Undefined, Undefined))
  @@ (3 :> ProductDoc("rejected", 5500, 3, <<"2025", "08", "01">>, "blurry", "retake"))

ProductRequests ==
  {WithMore(Input(RApprovedProducts, <<>>, Undefined, Undefined, 0, 0, Undefined,
                  Undefined, NoItems, FALSE),
            [NoMore EXCEPT !.page = pg, !.limit = lm, !.sort = so, !.date = da]) :
     pg \in {0, 1, 2}, lm \in {0, 1, 2}, so \in {Undefined, "asc", "desc"},
     da \in {<<>>, <<"2025", "07">>}}
  \cup
  {Input(RApproveProduct, <<"Bearer", "tok-admin">>, AdminMail, Undefined, id, 0,
         Undefined, st, NoItems, FALSE) :
     id \in {1, 2, 3, 5}, st \in {"approved", "pending", Undefined}}
  \cup
  {Input(RApproveProduct, c.header, c.qEmail, Undefined, 1, 0, Undefined,
         "approved", NoItems, FALSE) : c \in NonAdminCallers}
  \cup
  {WithMore(Input(RRejectProduct, <<"Bearer", "tok-admin">>, AdminMail, Undefined,
                  id, 0, Undefined, Undefined, NoItems, FALSE),
            [NoMore EXCEPT !.reason = re, !.feedback = "retake"]) :
     id \in {1, 3, 5}, re \in {"blurry", Undefined}}

InitProduct ==
  /\ users = Directory
  /\ vendorApps = <<>>
  /\ products = Moderated
  /\ cart = <<>>
  /\ wish = <<>>
  /\ payments = <<>>
  /\ reqs = [s \in Slots |-> IdleReq]
  /\ hist = <<>>

NextProduct ==
  \/ Quiet /\ \E in \in ProductRequests : BeginSeq(in)
  \/ \E s \in Slots :
       \/ Retire(s)
       \/ VerifyToken(s)
       \/ VerifyTokenEmail(s)
       \/ VerifyRole(s)
       \/ ApprovedProducts(s)
       \/ ApproveProduct(s)
       \/ RejectProduct(s)

SpecProduct == InitProduct /\ [][NextProduct]_vars

\* ================================================================ SpecSave
\* POST /save-payment requests, one at a time, on an empty payments
\* collection.
SaveRequests ==
  {WithMore(Input(RSavePayment, <<"Bearer", "tok-user">>, UserMail, Undefined, 0, 0,
                  b, st, items, FALSE),
            [NoMore EXCEPT !.paymentIntentId = pi, !.paidAt = at,
                           !.hasItems = (items # <<>>)]) :
     b \in {UserMail, VendorMail}, st \in {Undefined, "pending", "refunded"},
     pi \in {Undefined, "", "pi_1"}, at \in {Undefined, "1999"},
     items \in {<<>>, <<LineItem(1, 10000, 2, "rice")>>}}
  \cup
  {WithMore(Input(RSavePayment, c.header, c.qEmail, Undefined, 0, 0, UserMail,
                  Undefined, NoItems, FALSE),
            [NoMore EXCEPT !.paymentIntentId = "pi_1"]) :
     c \in BadCallers \cup {[header |-> <<"Bearer", "tok-vendor">>, qEmail |-> VendorMail]}}

InitSave ==
  /\ users = Directory
  /\ vendorApps = <<>>
  /\ products = Shelf
  /\ cart = <<>>
  /\ wish = <<>>
  /\ payments = <<>>
  /\ reqs = [s \in Slots |-> IdleReq]
  /\ hist = <<>>

NextSave ==
  \/ Quiet /\ \E in \in SaveRequests : BeginSeq(in)
  \/ \E s \in Slots :
       \/ Retire(s)
       \/ VerifyToken(s)
       \/ VerifyTokenEmail(s)
       \/ VerifyRole(s)
       \/ SavePayment(s)

SpecSave == InitSave /\ [][NextSave]_vars

\* ============================================================ SpecCheckout
\* POST /cart and POST /create-order requests, one at a time, from an empty
\* cart: the user adds product 1 at $10.00 and product 2 at $5.50, the
\* vendor adds product 2 with no price in the body.
CheckoutRequests ==
  {WithMore(Input(RCart, <<"Bearer", "tok-user">>, UserMail, Undefined, 0, pp[1],
                  b, Undefined, NoItems, FALSE),
            [NoMore EXCEPT !.price = pp[2]]) :
     pp \in {<<1, [num |-> TRUE, mills |-> 10000, given |-> TRUE]>>,
             <<2, [num |-> TRUE, mills |-> 5500, given |-> TRUE]>>},
     b \in {UserMail}}
  \cup
  {Input(RCart, <<"Bearer", "tok-vendor">>, VendorMail, Undefined, 0, 2,
         VendorMail, Undefined, NoItems, FALSE)}
  \cup
  {Input(RCreateOrder, <<"Bearer", "tok-user">>, UserMail, Undefined, 0, 0, b,
         Undefined, NoItems, FALSE) : b \in {UserMail, VendorMail, GhostMail}}
  \cup
  {Input(RCreateOrder, c.header, c.qEmail, Undefined, 0, 0, UserMail, Undefined,
         NoItems, FALSE) : c \in BadCallers}

InitCheckout ==
  /\ users = Directory
  /\ vendorApps = <<>>
  /\ products = Shelf
  /\ cart = <<>>
  /\ wish = <<>>
  /\ payments = <<>>
  /\ reqs = [s \in Slots |-> IdleReq]
  /\ hist = <<>>

NextCheckout ==
  \/ Quiet /\ \E in \in CheckoutRequests : BeginSeq(in)
  \/ \E s \in Slots :
       \/ Retire(s)
       \/ VerifyToken(s)
       \/ VerifyTokenEmail(s)
       \/ CartFind(s)
       \/ CartWrite(s)
       \/ CreateOrder(s)

SpecCheckout == InitCheckout /\ [][NextCheckout]_vars

\* ============================================================ SpecWishRace
\* POST /wishlist requests handled concurrently, from an empty wishlist.
WishRaceRequests ==
  {Input(RWishlist, <<>>, q, Undefined, 0, p, Undefined, Undefined, NoItems, TRUE) :
     q \in {UserMail, VendorMail}, p \in {0, 1, 2}}

InitWishRace ==
  /\ users = Directory
  /\ vendorApps = <<>>
  /\ products = <<>>
  /\ cart = <<>>
  /\ wish = <<>>
  /\ payments = <<>>
  /\ reqs = [s \in ConSlots |-> IdleReq]
  /\ hist = <<>>

NextWishRace ==
  \E s \in ConSlots :
    \/ \E in \in WishRaceRequests : Begin(s, in)
    \/ Retire(s)
    \/ WishFind(s)
    \/ WishInsert(s)

SpecWishRace == InitWishRace /\ [][NextWishRace]_vars

\* ============================================================ SpecCartRace
\* POST /cart requests handled concurrently, from an empty cart.
CartRaceRequests ==
  {Input(RCart, <<"Bearer", "tok-user">>, UserMail, Undefined, 0, p, b, Undefined,
         NoItems, TRUE) : p \in {1, 2}, b \in {UserMail, VendorMail}}
  \cup
  {Input(RCart, <<>>, UserMail, Undefined, 0, 1, UserMail, Undefined, NoItems, TRUE)}

InitCartRace ==
  /\ users = Directory
  /\ vendorApps = <<>>
  /\ products = <<>>
  /\ cart = <<>>
  /\ wish = <<>>
  /\ payments = <<>>
  /\ reqs = [s \in ConSlots |-> IdleReq]
  /\ hist = <<>>

NextCartRace ==
  \E s \in ConSlots :
    \/ \E in \in CartRaceRequests : Begin(s, in)
    \/ Retire(s)
    \/ VerifyToken(s)
    \/ VerifyTokenEmail(s)
    \/ CartFind(s)
    \/ CartWrite(s)

SpecCartRace == InitCartRace /\ [][NextCartRace]_vars

\* ============================================================= SpecCartUpdRace
\* PATCH /cart/update/:itemId requests handled concurrently, on a cart of
\* two rows as POST /cart and earlier updates leave them.
CartUpdRaceRequests ==
  {Input(RCartUpdate, c.header, c.qEmail, a, id, 0, Undefined, Undefined, NoItems, FALSE) :
     c \in Callers, a \in {"increase", "decrease"}, id \in {1, 2}}
  \cup
  {Input(RCartUpdate, <<>>, UserMail, "decrease", 1, 0, Undefined, Undefined,
         NoItems, FALSE),
   Input(RCartUpdate, <<"Bearer", "tok-user">>, UserMail, "reset", 1, 0, Undefined,
         Undefined, NoItems, FALSE)}

InitCartUpdRace ==
  /\ users = Directory
  /\ vendorApps = <<>>
  /\ products = <<>>
  /\ \E q1, q2 \in 1..2 :
       cart = <<[id |-> 1, buyerEmail |-> UserMail, productId |-> 1,
                 pricePerUnit |-> NoPrice, quantity |-> q1],
                [id |-> 2, buyerEmail |-> VendorMail, productId |-> 1,
                 pricePerUnit |-> NoPrice, quantity |-> q2]>>
  /\ wish = <<>>
  /\ payments = <<>>
  /\ reqs = [s \in ConSlots |-> IdleReq]
  /\ hist = <<>>

NextCartUpdRace ==
  \E s \in ConSlots :
    \/ \E in \in CartUpdRaceRequests : Begin(s, in)
    \/ Retire(s)
    \/ VerifyToken(s)
    \/ VerifyTokenEmail(s)
    \/ CartUpdFind(s)
    \/ CartUpdWrite(s)

SpecCartUpdRace == InitCartUpdRace /\ [][NextCartUpdRace]_vars

\* ========================================================== SpecVendorRace
\* PATCH /vendor-requests/:vendorId requests handled concurrently, on two
\* pending applications (1: the user's, 2: one whose email has no user
\* document).
VendorRaceRequests ==
  {Input(RVendorReq, <<"Bearer", "tok-admin">>, AdminMail, Undefined, id, 0,
         Undefined, st, NoItems, FALSE) :
     id \in {1, 2}, st \in {"approved", "rejected"}}
  \cup
  {Input(RVendorReq, <<"Bearer", "tok-admin">>, AdminMail, Undefined, 3, 0,
         Undefined, "banned", NoItems, FALSE),
   Input(RVendorReq, <<"Bearer", "tok-admin">>, AdminMail, Undefined, 3, 0,
         Undefined, "approved", NoItems, FALSE),
   Input(RVendorReq, <<"Bearer", "tok-user">>, UserMail, Undefined, 1, 0,
         Undefined, "approved", NoItems, FALSE),
   Input(RVendorReq, <<>>, AdminMail, Undefined, 1, 0,
         Undefined, "approved", NoItems, FALSE),
   Input(RVendorReq, <<"Bearer", "tok-admin">>, UserMail, Undefined, 1, 0,
         Undefined, "approved", NoItems, FALSE)}

InitVendorRace ==
  /\ users = Directory
  /\ vendorApps = (1 :> [email |-> UserMail, vendor_status |-> "pending"])
                    @@ (2 :> [email |-> GhostMail, vendor_status |-> "pending"])
  /\ products = <<>>
  /\ cart = <<>>
  /\ wish = <<>>
  /\ payments = <<>>
  /\ reqs = [s \in ConSlots |-> IdleReq]
  /\ hist = <<>>

NextVendorRace ==
  \E s \in ConSlots :
    \/ \E in \in VendorRaceRequests : Begin(s, in)
    \/ Retire(s)
    \/ VerifyToken(s)
    \/ VerifyTokenEmail(s)
    \/ VerifyRole(s)
    \/ VendorFind(s)
    \/ VendorDecide(s)
    \/ VendorPromote(s)

SpecVendorRace == InitVendorRace /\ [][NextVendorRace]_vars

\* ================================================================ SpecRole
\* Role changes (PATCH /users/updateRole/:id, approval of the user's vendor
\* application) handled concurrently with role-gated requests the user
\* sends with the token issued before the change.
RoleRequests ==
  {WithMore(Input(RUpdateRole, <<"Bearer", "tok-admin">>, AdminMail, Undefined, id, 0,
                  Undefined, Undefined, NoItems, FALSE),
            [NoMore EXCEPT !.role = ro]) :
     id \in {1, 9}, ro \in {"user", "vendor", "owner"}}
  \cup
  {WithMore(Input(RUpdateRole, <<"Bearer", "tok-user">>, UserMail, Undefined, 1, 0,
                  Undefined, Undefined, NoItems, FALSE),
            [NoMore EXCEPT !.role = "admin"]),
   Input(RVendorReq, <<"Bearer", "tok-admin">>, AdminMail, Undefined, 1, 0,
         Undefined, "approved", NoItems, FALSE),
   Input(RVendorOrders, <<"Bearer", "tok-user">>, UserMail, Undefined, 0, 0,
         Undefined, Undefined, NoItems, FALSE),
   Input(RAllProducts, <<"Bearer", "tok-user">>, UserMail, Undefined, 0, 0,
         Undefined, Undefined, NoItems, FALSE)}

InitRole ==
  /\ users = Directory
  /\ vendorApps = (1 :> [email |-> UserMail, vendor_status |-> "pending"])
  /\ products = <<>>
  /\ cart = <<>>
  /\ wish = <<>>
  /\ payments = <<>>
  /\ reqs = [s \in ConSlots |-> IdleReq]
  /\ hist = <<>>

NextRole ==
  \E s \in ConSlots :
    \/ \E in \in RoleRequests : Begin(s, in)
    \/ Retire(s)
    \/ VerifyToken(s)
    \/ VerifyTokenEmail(s)
    \/ VerifyRole(s)
    \/ UpdateRole(s)
    \/ VendorFind(s)
    \/ VendorDecide(s)
    \/ VendorPromote(s)
    \/ VendorOrders(s)
    \/ AllProductsHandler(s)

SpecRole == InitRole /\ [][NextRole]_vars

\* ============================================================= SpecWishDel
\* Wishlist entries added by POST /wishlist and removed by DELETE
\* /delete-wishlist/:id, one request at a time, from an empty wishlist.
WishDelRequests ==
  {Input(RWishlist, <<>>, q, Undefined, 0, p, Undefined, Undefined, NoItems, FALSE) :
     q \in {UserMail, VendorMail}, p \in {1, 2}}
  \cup
  {Input(RDeleteWishlist, c.header, c.qEmail, Undefined, id, 0, Undefined,
         Undefined, NoItems, FALSE) :
     c \in Callers, id \in {1, 2, 3}}

InitWishDel ==
  /\ users = Directory
  /\ vendorApps = <<>>
  /\ products = <<>>
  /\ cart = <<>>
  /\ wish = <<>>
  /\ payments = <<>>
  /\ reqs = [s \in Slots |-> IdleReq]
  /\ hist = <<>>

NextWishDel ==
  \/ Quiet /\ \E in \in WishDelRequests : BeginSeq(in)
  \/ \E s \in Slots :
       \/ Retire(s)
       \/ VerifyToken(s)
       \/ VerifyTokenEmail(s)
       \/ VerifyRole(s)
       \/ WishFind(s)
       \/ WishInsert(s)
       \/ DeleteWishlist(s)

SpecWishDel == InitWishDel /\ [][NextWishDel]_vars

\* ============================================================= SpecCatalog
\* Products added and modified by vendors and approved by the admin, one
\* request at a time, starting from the moderated products.
CatalogRequests ==
  {WithMore(Input(RAddProducts, c.header, c.qEmail, Undefined, 0, 0, VendorMail, st,
                  NoItems, FALSE),
            [NoMore EXCEPT !.price = [num |-> TRUE, mills |-> 5500, given |-> TRUE],
                           !.date = <<"2025", "08", "02">>]) :
     c \in Callers, st \in {"pending", "approved"}}
  \cup
  {WithMore(Input(RModifyProduct, <<"Bearer", "tok-vendor">>, VendorMail, Undefined,
                  id, 0, Undefined, b.status, NoItems, FALSE),
            [NoMore EXCEPT !.price = b.price]) :
     id \in {1, 3, 4},
     b \in {[status |-> "approved", price |-> NoPrice],
            [status |-> Undefined,
             price |-> [num |-> TRUE, mills |-> 12000, given |-> TRUE]]}}
  \cup
  {Input(RApproveProduct, c.header, c.qEmail, Undefined, id, 0, Undefined,
         "approved", NoItems, FALSE) :
     c \in {[header |-> <<"Bearer", "tok-admin">>, qEmail |-> AdminMail],
            [header |-> <<"Bearer", "tok-vendor">>, qEmail |-> VendorMail]},
     id \in {1, 3}}

InitCatalog ==
  /\ users = Directory
  /\ vendorApps = <<>>
  /\ products = Moderated
  /\ cart = <<>>
  /\ wish = <<>>
  /\ payments = <<>>
  /\ reqs = [s \in Slots |-> IdleReq]
  /\ hist = <<>>

NextCatalog ==
  \/ Quiet /\ \E in \in CatalogRequests : BeginSeq(in)
  \/ \E s \in Slots :
       \/ Retire(s)
       \/ VerifyToken(s)
       \/ VerifyTokenEmail(s)
       \/ VerifyRole(s)
       \/ AddProducts(s)
       \/ ModifyProduct(s)
       \/ ApproveProduct(s)

SpecCatalog == InitCatalog /\ [][NextCatalog]_vars

\* ------------------------------------------------- claims: access control
Last(t) == t[Len(t)]
Entered(r, step) == \E i \in DOMAIN r.trace : r.trace[i] = step
Passed(r, step) == \E i \in DOMAIN r.trace : r.trace[i] = step /\ i < Len(r.trace)
Uses(route, mw) == \E i \in DOMAIN Chain(route) : Chain(route)[i] = mw

\* No Authorization header, or one that does not start with "Bearer ".
NoBearerCredential(h) == Len(h) < 2 \/ h[1] # "Bearer"
\* The header carries a Bearer token signed by the server for claim e.
BearerFor(h, e) == ~NoBearerCredential(h) /\ h[2] = JwtSign(e)
BearerVerifies(h) == \E e \in Emails \cup {Undefined} : BearerFor(h, e)

\* C1: on a route that starts with verifyToken, once the token step has run:
\* a request without a Bearer credential has been answered 401, one whose
\* Bearer token fails verification has been answered 403, in both cases by
\* the token step itself and with no identity attached; a request whose token
\* verifies has the token's email attached and was handed to the next step.
C1_TokenStep ==
  \A s \in Slots :
    LET r == reqs[s] IN
    /\ r.pc = "verifyToken" => ~r.authed /\ r.decoded = Undefined
    /\ (Uses(r.route, "verifyToken") /\ r.pc \notin {"idle", "verifyToken"}) =>
         /\ NoBearerCredential(r.header) =>
              r.pc = "done" /\ r.status = 401 /\ r.trace = <<"verifyToken">> /\ ~r.authed
         /\ (~NoBearerCredential(r.header) /\ ~BearerVerifies(r.header)) =>
              r.pc = "done" /\ r.status = 403 /\ r.trace = <<"verifyToken">> /\ ~r.authed
         /\ \A e \in Emails \cup {Undefined} :
              BearerFor(r.header, e) =>
                r.authed /\ r.decoded = e /\ Len(r.trace) >= 2

\* A forged Bearer token was answered 403 by the token step.
C1_Witness ==
  \E s \in Slots :
    /\ reqs[s].pc = "done" /\ reqs[s].status = 403
    /\ reqs[s].trace = <<"verifyToken">>
    /\ reqs[s].header = <<"Bearer", "tok-forged">>

\* C2: on a route that applies verifyTokenEmail, a request with a verified
\* token whose query email differs from the token's email is answered 403
\* by the identity step, whatever role the caller has, and its handler never
\* runs (no handler read or write).
C2_IdentityMismatch ==
  \A s \in Slots : \A e \in Emails \cup {Undefined} :
    LET r == reqs[s] IN
    (/\ Uses(r.route, "verifyTokenEmail")
     /\ BearerFor(r.header, e)
     /\ r.qEmail # e
     /\ r.pc \notin {"idle", "verifyToken", "verifyTokenEmail"}) =>
       /\ r.pc = "done" /\ r.status = 403
       /\ ~Entered(r, "handler")
       /\ r.reads = 0 /\ r.writes = 0 /\ r.calls = 0

\* The admin, on the admin-only GET /users, with another user's email in the
\* query, was answered 403.
C2_Witness ==
  \E s \in Slots :
    /\ reqs[s].route = RUsers /\ reqs[s].pc = "done" /\ reqs[s].status = 403
    /\ reqs[s].decoded = AdminMail /\ users[AdminMail] = "admin"
    /\ reqs[s].qEmail = UserMail

\* C3: when the role step runs for a request with a verified email, it hands
\* the request on exactly if the role stored for that email at that moment is
\* one of the route's accepted roles, and answers 403 otherwise; a verified
\* token without an email is answered 401.
C3_RoleStep ==
  [][\A s \in Slots :
       LET r == reqs[s]
           r2 == reqs'[s] IN
       (r.pc = "verifyRole" /\ r2.pc # "verifyRole") =>
         IF Falsy(r.decoded)
         THEN r2.pc = "done" /\ r2.status = 401
         ELSE IF users[r.decoded] \in ExpectedRoles(r.route)
         THEN r2.pc = "handler" /\ r2.status = 0
         ELSE r2.pc = "done" /\ r2.status = 403]_vars

\* A caller with role user was answered 403 by the role step of GET /users.
C3_Witness ==
  \E s \in Slots :
    /\ reqs[s].route = RUsers /\ reqs[s].pc = "done" /\ reqs[s].status = 403
    /\ reqs[s].decoded = UserMail /\ users[UserMail] = "user"
    /\ Last(reqs[s].trace) = "verifyRole"

\* The routes registered behind verifyToken.
ProtectedRoutes ==
  RoleRoutes \cup {RGetCart, RCart, RCartUpdate, RCreateOrder}

Rank(step) ==
  CASE step = "verifyToken" -> 1
    [] step = "verifyTokenEmail" -> 2
    [] step = "verifyRole" -> 3
    [] OTHER -> 4

\* C4: the steps of a request run in the order token, identity, role,
\* handler, none of the route's steps is skipped before its handler, and a
\* step that answers the request ends it: no later step or handler runs, and
\* that step changes no collection and calls no payment provider.
C4_PipelineOrder ==
  [][\A s \in Slots :
       LET r == reqs[s]
           r2 == reqs'[s] IN
       /\ \A i, j \in DOMAIN r2.trace : i < j => Rank(r2.trace[i]) < Rank(r2.trace[j])
       /\ r2.route \in ProtectedRoutes => r2.trace[1] = "verifyToken"
       /\ Entered(r2, "handler") =>
            \A m \in Middlewares : Uses(r2.route, m) => Entered(r2, m)
       /\ (r.pc \in Middlewares /\ r2.pc = "done") =>
            /\ store' = store
            /\ ~Entered(r2, "handler")
            /\ r2.reads = 0 /\ r2.writes = 0 /\ r2.calls = 0
       /\ r.pc = "done" => r2 \in {r, IdleReq}]_vars

\* A caller with role user asked to approve the pending application 1 and was
\* stopped by the role step; the application is still pending.
C4_Witness ==
  \E s \in Slots :
    /\ reqs[s].route = RVendorReq /\ reqs[s].id = 1 /\ reqs[s].bStatus = "approved"
    /\ reqs[s].pc = "done" /\ reqs[s].status = 403
    /\ Last(reqs[s].trace) = "verifyRole" /\ reqs[s].writes = 0
    /\ vendorApps[1].vendor_status = "pending"

\* C5: every request to a route that starts with verifyToken, once it has
\* passed the token and identity steps and left the pipeline, has had exactly
\* one role lookup made for it, and the pipeline has written nothing.
C5_OneRoleLookup ==
  \A s \in Slots :
    LET r == reqs[s] IN
    (/\ Uses(r.route, "verifyToken")
     /\ Passed(r, "verifyToken") /\ Passed(r, "verifyTokenEmail")
     /\ r.pc # "verifyRole") =>
       /\ r.lookups = 1
       /\ r.pc = "handler" => r.writes = 0

\* ------------------------------------------------ claims: wishlist, cart
\* Positions of hist before j: answered POST /wishlist requests for the
\* same (query email, productId) as hist[j].
EarlierWish(j) ==
  {i \in 1..(j - 1) :
     /\ hist[i].route = RWishlist
     /\ hist[i].qEmail = hist[j].qEmail
     /\ hist[i].bProduct = hist[j].bProduct}

\* Positions of hist before j: POST /cart requests answered 200 or 201 for
\* the same (buyerEmail, productId) as hist[j].
EarlierCartAdd(j) ==
  {i \in 1..(j - 1) :
     /\ hist[i].route = RCart /\ hist[i].status \in {200, 201}
     /\ hist[i].bEmail = hist[j].bEmail
     /\ hist[i].bProduct = hist[j].bProduct}

WishCount(email, productId) ==
  Cardinality({k \in DOMAIN wish : wish[k].email = email /\ wish[k].productId = productId})

\* C6: starting from an empty wishlist and with requests handled one after
\* the other, the first POST /wishlist for a pair (email, productId) is
\* answered 200 and every later one for the same pair 409; after each of
\* them exactly one wishlist document exists for the pair.
C6_WishlistTwice ==
  \A j \in DOMAIN hist :
    (hist[j].route = RWishlist /\ ~Falsy(hist[j].qEmail) /\ hist[j].bProduct # 0) =>
      /\ hist[j].status = IF EarlierWish(j) = {} THEN 200 ELSE 409
      /\ WishCount(hist[j].qEmail, hist[j].bProduct) = 1

\* Two calls for (user, product 1): 200 then 409, one document.
C6_Witness ==
  /\ Len(hist) >= 2
  /\ hist[1].route = RWishlist /\ hist[1].qEmail = UserMail /\ hist[1].bProduct = 1
  /\ hist[2].route = RWishlist /\ hist[2].qEmail = UserMail /\ hist[2].bProduct = 1
  /\ hist[1].status = 200 /\ hist[2].status = 409
  /\ WishCount(UserMail, 1) = 1

CartRows(email, productId) ==
  {k \in DOMAIN cart : cart[k].buyerEmail = email /\ cart[k].productId = productId}

\* C7: starting from an empty cart and with requests handled one after the
\* other, the first POST /cart that reaches its handler for a pair
\* (buyerEmail, productId) is answered 201 and the later ones 200; after n
\* of them the cart holds exactly one row for the pair, with quantity n
\* (and no row for a pair nobody added).
C7_CartAccumulates ==
  /\ \A j \in DOMAIN hist :
       (hist[j].route = RCart /\ hist[j].status \in {200, 201}) =>
         hist[j].status = IF EarlierCartAdd(j) = {} THEN 201 ELSE 200
  /\ \A e \in Emails, p \in {1, 2} :
       LET n == Cardinality({j \in DOMAIN hist :
                               /\ hist[j].route = RCart /\ hist[j].status \in {200, 201}
                               /\ hist[j].bEmail = e /\ hist[j].bProduct = p})
       IN IF n = 0 THEN CartRows(e, p) = {}
          ELSE /\ Cardinality(CartRows(e, p)) = 1
               /\ \A k \in CartRows(e, p) : cart[k].quantity = n

\* Two adds of (user, product 1): 201 then 200, one row of quantity 2.
C7_Witness ==
  /\ Len(hist) = 2
  /\ \A j \in {1, 2} : hist[j].route = RCart /\ hist[j].bEmail = UserMail /\ hist[j].bProduct = 1
  /\ hist[1].status = 201 /\ hist[2].status = 200
  /\ Cardinality(CartRows(UserMail, 1)) = 1
  /\ \A k \in CartRows(UserMail, 1) : cart[k].quantity = 2

\* C8: for PATCH /cart/update/:itemId handled without another request in
\* between: an action other than increase/decrease is answered 400 with no
\* store read; on the caller's own row of quantity q, decrease is answered
\* 400 and leaves the cart as it is when q = 1 and stores q - 1 when q > 1,
\* and increase stores q + 1.
C8_CartFloor ==
  [][\A s \in Slots :
       LET r == reqs[s]
           r2 == reqs'[s] IN
       r.route = RCartUpdate =>
         /\ (r.pc = "handler" /\ r.qAction \notin {"increase", "decrease"}) =>
              /\ r2.pc = "done" /\ r2.status = 400
              /\ r2.reads = 0 /\ r2.lookups = 0 /\ cart' = cart
         /\ (r.pc = "write" /\ r2.pc = "done") =>
              \A k \in DOMAIN cart :
                (cart[k].id = r.id /\ cart[k].buyerEmail = r.decoded) =>
                  IF r.qAction = "decrease" /\ cart[k].quantity = 1
                  THEN r2.status = 400 /\ cart' = cart
                  ELSE /\ r2.status = 200
                       /\ cart'[k].quantity =
                            cart[k].quantity + (IF r.qAction = "increase" THEN 1 ELSE -1)
                       /\ \A m \in DOMAIN cart : m # k => cart'[m] = cart[m]]_vars

\* The user's decrease of the own row of quantity 1 was answered 400 and the
\* row still has quantity 1.
C8_Witness ==
  \E s \in Slots :
    /\ reqs[s].route = RCartUpdate /\ reqs[s].qAction = "decrease"
    /\ reqs[s].pc = "done" /\ reqs[s].status = 400 /\ reqs[s].found
    /\ \E k \in DOMAIN cart :
         cart[k].id = reqs[s].id /\ cart[k].buyerEmail = reqs[s].decoded
           /\ cart[k].quantity = 1

\* ------------------------------------------- claims: vendor applications
Decided(app) == app.vendor_status \in {"approved", "rejected"}

\* Earlier answered requests that decided application hist[j].id.
DecidedBefore(h, j) ==
  {i \in 1..(j - 1) :
     /\ h[i].route = RVendorReq /\ h[i].id = h[j].id /\ h[i].status = 200
     /\ h[i].bStatus \in {"approved", "rejected"}}

\* C9: with requests handled one after the other, an application that is
\* approved or rejected never changes again, every later PATCH for it is
\* answered 400 whatever status it asks for, and handling such a request
\* leaves the users collection as it is; a request answered 200 that
\* approved an application has set the role of the user with the
\* application's email to vendor.
C9_VendorDecisionFinal ==
  [][/\ \A id \in DOMAIN vendorApps :
          Decided(vendorApps[id]) => vendorApps'[id] = vendorApps[id]
     /\ \A j \in DOMAIN hist' :
          (hist'[j].route = RVendorReq /\ DecidedBefore(hist', j) # {}) =>
            hist'[j].status \in {400, 401, 403}
     /\ \A s \in Slots :
          LET r == reqs[s] IN
          (/\ r.route = RVendorReq /\ r.pc \in {"handler", "write"}
           /\ r.id \in DOMAIN vendorApps /\ Decided(vendorApps[r.id])) =>
            /\ users' = users
            /\ reqs'[s].pc = "done" => reqs'[s].status = 400 /\ reqs'[s].writes = 0
     /\ (Len(hist') > Len(hist) /\ Last(hist').route = RVendorReq
           /\ Last(hist').status = 200 /\ Last(hist').bStatus = "approved") =>
          LET e == vendorApps'[Last(hist').id].email IN
          /\ vendorApps'[Last(hist').id].vendor_status = "approved"
          /\ users[e] # Undefined => users'[e] = "vendor"]_vars

\* Application 1 was approved (the user is now a vendor) and a later request
\* by the admin to reject it was answered 400; it is still approved.
C9_Witness ==
  /\ Len(hist) >= 2
  /\ hist[1].route = RVendorReq /\ hist[1].id = 1 /\ hist[1].bStatus = "approved"
  /\ hist[1].status = 200
  /\ hist[2].route = RVendorReq /\ hist[2].id = 1 /\ hist[2].bStatus = "rejected"
  /\ hist[2].status = 400
  /\ vendorApps[1].vendor_status = "approved" /\ users[UserMail] = "vendor"

\* ------------------------------------------------------ claims: payment
AllExist(items) == \A i \in DOMAIN items : items[i].productId \in DOMAIN products

\* Sum over the items of stored price (mills) x whole units of the quantity.
RECURSIVE WholeUnitsTotal(_, _)
WholeUnitsTotal(items, i) ==
  IF i > Len(items) THEN 0
  ELSE LET t == items[i].quantity.tenths
           units == IF t >= 0 THEN t \div 10 ELSE -((-t) \div 10)
       IN products[items[i].productId].pricePerUnit.mills * units
            + WholeUnitsTotal(items, i + 1)

\* Sum over the items of stored price (mills) x submitted quantity (tenths).
RECURSIVE ExactTotal(_, _)
ExactTotal(items, i) ==
  IF i > Len(items) THEN 0
  ELSE products[items[i].productId].pricePerUnit.mills * items[i].quantity.tenths
         + ExactTotal(items, i + 1)

PaidFor(r) == r.route = RPayCart /\ r.pc = "done" /\ r.calls > 0

\* C10 (as stated): whenever the provider was called for a cart whose
\* products all exist, the amount is round(100 x sum of stored price x
\* requested quantity) in cents.
C10_AmountPriceTimesQuantity ==
  \A s \in Slots :
    (PaidFor(reqs[s]) /\ AllExist(reqs[s].bItems)) =>
      reqs[s].amount = (ExactTotal(reqs[s].bItems, 1) + 50) \div 100

\* C10 (amended): whenever the provider was called, every product of the
\* cart exists, the provider was called once, and the amount in cents is
\* round(100 x sum of stored price x parseInt(requested quantity)); it does
\* not depend on the price fields of the body.
C10_AmountFromStoredPrices ==
  \A s \in Slots :
    PaidFor(reqs[s]) =>
      /\ AllExist(reqs[s].bItems)
      /\ reqs[s].calls = 1
      /\ reqs[s].amount = (WholeUnitsTotal(reqs[s].bItems, 1) + 5) \div 10

\* The spec's example: $10.00 x 2 and $5.50 x 1 with other prices in the
\* body was charged 2550 cents.
C10_Witness ==
  \E s \in Slots :
    /\ PaidFor(reqs[s]) /\ Len(reqs[s].bItems) = 2
    /\ reqs[s].bItems[1].productId = 1 /\ reqs[s].bItems[1].quantity.tenths = 20
    /\ reqs[s].bItems[2].productId = 2 /\ reqs[s].bItems[2].quantity.tenths = 10
    /\ reqs[s].bItems[1].price.mills = 1 /\ reqs[s].bItems[2].price.mills = 99900
    /\ reqs[s].amount = 2550

\* C11: for POST /create-payment-intent against an unchanged product store,
\* two answered requests that name the same product and differ only in the
\* body's price made the provider charge the same amount, and a request
\* naming a product that does not exist was rejected without a provider call.
C11_SinglePriceFromStore ==
  /\ \A i, j \in DOMAIN hist :
       (/\ hist[i].route = RPayIntent /\ hist[j].route = RPayIntent
        /\ hist[i].bProduct = hist[j].bProduct
        /\ hist[i].calls > 0 /\ hist[j].calls > 0) =>
         hist[i].amount = hist[j].amount
  /\ \A j \in DOMAIN hist :
       (hist[j].route = RPayIntent /\ hist[j].bProduct \notin DOMAIN products) =>
         hist[j].calls = 0 /\ hist[j].status \in 400..499

\* -------------------------------------------------- claims: order views
\* C12: every record of a GET /vendor/orders response for vendor V comes
\* from a line item of a stored payment with status paid whose product exists
\* and has vendorEmail = V; so no item of another vendor's product, of a
\* missing product or of a payment that is not paid is returned.
C12_VendorOrdersScoped ==
  \A s \in Slots :
    LET r == reqs[s] IN
    (r.route = RVendorOrders /\ r.pc = "done") =>
      \A k \in DOMAIN r.out :
        \E i \in DOMAIN payments :
          /\ payments[i].id = r.out[k].orderId
          /\ payments[i].status = "paid"
          /\ r.out[k].line \in DOMAIN payments[i].items
          /\ LET pid == payments[i].items[r.out[k].line].productId IN
             /\ pid = r.out[k].productId
             /\ pid \in DOMAIN products
             /\ products[pid].vendorEmail = r.decoded
             /\ r.decoded = r.out[k].vendorEmail

\* vendor@mp got a record for an own product while paid payments also hold
\* a line of vendor2@mp's product and a line of a missing product, and a
\* pending payment holds a line of vendor@mp's product.
C12_Witness ==
  \E s \in Slots :
    /\ reqs[s].route = RVendorOrders /\ reqs[s].pc = "done" /\ reqs[s].status = 200
    /\ reqs[s].decoded = VendorMail /\ Len(reqs[s].out) >= 1
    /\ \E i, j, k \in DOMAIN payments :
         /\ payments[i].status = "paid" /\ payments[j].status = "paid"
         /\ \E a \in DOMAIN payments[i].items :
              /\ payments[i].items[a].productId \in DOMAIN products
              /\ products[payments[i].items[a].productId].vendorEmail = Vendor2Mail
         /\ \E a \in DOMAIN payments[j].items :
              payments[j].items[a].productId \notin DOMAIN products
         /\ payments[k].status = "pending"
         /\ \E a \in DOMAIN payments[k].items :
              /\ payments[k].items[a].productId \in DOMAIN products
              /\ products[payments[k].items[a].productId].vendorEmail = VendorMail

\* ---------------------------------------------- claims: product moderation
\* Number of approved products matching the request's date that sort
\* strictly before, or equal to, product p under the request's sort.
StrictlyBefore(p, date, sort) ==
  Cardinality({q \in ApprovedMatching(date) :
                 ~MayPrecede(products[p], products[q], sort)})
NotAfter(p, date, sort) ==
  Cardinality({q \in ApprovedMatching(date) :
                 MayPrecede(products[q], products[p], sort)})

\* C13: a GET /approved-products response holds only products whose status
\* is approved (never a pending or rejected one), each once, and holds every
\* approved product (matching the request's date, if it has one) whose
\* position in the sort order falls on the requested page; and a PATCH
\* /approve-product with status approved by an admin leaves the product
\* with status approved and without rejectionReason and rejectionFeedback.
C13_ApprovalRoundTrip ==
  [][\A s \in Slots :
       LET r == reqs[s]
           r2 == reqs'[s]
           limit == IF r.more.limit = 0 THEN 9 ELSE r.more.limit
           first == ((IF r.more.page = 0 THEN 1 ELSE r.more.page) - 1) * limit + 1
           sort == IF r.more.sort = Undefined THEN "newest" ELSE r.more.sort IN
       /\ (r.route = RApprovedProducts /\ r.pc = "handler" /\ r2.pc = "done") =>
            /\ r2.status = 200
            /\ \A k \in DOMAIN r2.out :
                 /\ r2.out[k].id \in DOMAIN products
                 /\ products[r2.out[k].id].status = "approved"
                 /\ r2.out[k].doc = products[r2.out[k].id]
                 /\ \A m \in DOMAIN r2.out : m # k => r2.out[m].id # r2.out[k].id
            /\ \A p \in ApprovedMatching(r.more.date) :
                 (/\ StrictlyBefore(p, r.more.date, sort) + 1 >= first
                  /\ NotAfter(p, r.more.date, sort) < first + limit) =>
                   \E k \in DOMAIN r2.out : r2.out[k].id = p
       /\ (/\ r.route = RApproveProduct /\ r.pc = "handler" /\ r2.pc = "done"
           /\ r.bStatus = "approved" /\ r.id \in DOMAIN products) =>
            /\ r2.status = 200
            /\ products'[r.id].status = "approved"
            /\ products'[r.id].rejectionReason = Undefined
            /\ products'[r.id].rejectionFeedback = Undefined
            /\ \A q \in DOMAIN products : q # r.id => products'[q] = products[q]]_vars

\* Product 3, rejected with a reason and feedback, was approved: the listing
\* returned it, approved and without the two rejection fields.
C13_Witness ==
  \E s \in Slots :
    /\ reqs[s].route = RApprovedProducts /\ reqs[s].pc = "done"
    /\ \E k \in DOMAIN reqs[s].out :
         /\ reqs[s].out[k].id = 3
         /\ reqs[s].out[k].doc.status = "approved"
         /\ reqs[s].out[k].doc.rejectionReason = Undefined
         /\ reqs[s].out[k].doc.rejectionFeedback = Undefined
    /\ products[1].status = "pending"

\* The paid payments on the page an admin-orders request asks for.
AdminPage(r) ==
  LET limit == IF r.more.limit = 0 THEN 7 ELSE r.more.limit
      page == IF r.more.page = 0 THEN 1 ELSE r.more.page IN
  {i \in DOMAIN PaidPayments : (page - 1) * limit < i /\ i <= page * limit}

\* C14: when a line item of a paid payment on the requested page references
\* a product that does not exist (every payment on the page having an items
\* list), GET /admin/orders is answered 200 and the response holds a record
\* for that line with vendor "N/A" and the line's item name or "Unknown
\* Product" as product name.
C14_AdminOrdersTolerant ==
  \A s \in Slots :
    LET r == reqs[s] IN
    (r.route = RAdminOrders /\ r.pc = "done" /\ Entered(r, "handler")) =>
      \A i \in AdminPage(r) :
        (\A m \in AdminPage(r) : PaidPayments[m].hasItems) =>
          \A j \in DOMAIN PaidPayments[i].items :
            LET item == PaidPayments[i].items[j] IN
            item.productId \notin DOMAIN products =>
              /\ r.status = 200
              /\ \E k \in DOMAIN r.out :
                   /\ r.out[k].orderId = PaidPayments[i].id /\ r.out[k].line = j
                   /\ r.out[k].vendorEmail = "N/A"
                   /\ r.out[k].productName =
                        (IF item.itemName = "" THEN "Unknown Product" ELSE item.itemName)

C16_SavePayment ==
  [][\A s \in Slots :
       LET r == reqs[s]
           r2 == reqs'[s] IN
       (r.route = RSavePayment /\ r.pc = "handler" /\ r2.pc = "done") =>
         IF r.more.paymentIntentId \in {Undefined, ""}
         THEN r2.status = 400 /\ payments' = payments
         ELSE /\ r2.status = 200
              /\ Len(payments') = Len(payments) + 1
              /\ SubSeq(payments', 1, Len(payments)) = payments
              /\ Last(payments').status = "paid"
              /\ Last(payments').paidAt = Now
              /\ Last(payments').paymentIntentId = r.more.paymentIntentId]_vars

\* A body with status "refunded" and paidAt "1999" was saved as a paid
\* payment stamped by the server.
C16_Witness ==
  \E s \in Slots :
    /\ reqs[s].route = RSavePayment /\ reqs[s].pc = "done" /\ reqs[s].status = 200
    /\ reqs[s].bStatus = "refunded" /\ reqs[s].more.paidAt = "1999"
    /\ Len(payments) >= 1
    /\ Last(payments).status = "paid" /\ Last(payments).paidAt = Now

\* The cart rows of a buyer, and the sum over rows of pricePerUnit (mills)
\* times quantity.
RowsOf(email) == SelectSeq(cart, LAMBDA row : row.buyerEmail = email)
RECURSIVE SumRows(_, _)
SumRows(rows, j) ==
  IF j > Len(rows) THEN 0
  ELSE rows[j].pricePerUnit.mills * rows[j].quantity + SumRows(rows, j + 1)

\* C17: POST /create-order for a buyer without cart rows is answered 400 and
\* inserts no payment; for a buyer with cart rows it is answered 201 and
\* inserts exactly one payment document, with status pending, a copy of the
\* buyer's cart rows and as price the sum over those rows of pricePerUnit x
\* quantity (not a number when a row has no numeric pricePerUnit); the cart
\* is left as it was.
C17_CreateOrder ==
  [][\A s \in Slots :
       LET r == reqs[s]
           r2 == reqs'[s]
           rows == RowsOf(r.bEmail) IN
       (r.route = RCreateOrder /\ r.pc = "handler" /\ r2.pc = "done") =>
         /\ cart' = cart
         /\ IF rows = <<>>
            THEN r2.status = 400 /\ payments' = payments
            ELSE /\ r2.status = 201
                 /\ Len(payments') = Len(payments) + 1
                 /\ SubSeq(payments', 1, Len(payments)) = payments
                 /\ Last(payments').status = "pending"
                 /\ Last(payments').buyerEmail = r.bEmail
                 /\ Last(payments').cartItems = rows
                 /\ IF \A j \in DOMAIN rows :
                         rows[j].pricePerUnit.given /\ rows[j].pricePerUnit.num
                    THEN /\ ~Last(payments').price.nan
                         /\ Last(payments').price.v = SumRows(rows, 1)
                    ELSE Last(payments').price.nan]_vars

\* An order of $25.50 was created from the user's rows 2 x $10.00 and
\* 1 x $5.50, while another buyer also has a row in the cart.
C17_Witness ==
  \E s \in Slots :
    /\ reqs[s].route = RCreateOrder /\ reqs[s].pc = "done" /\ reqs[s].status = 201
    /\ reqs[s].bEmail = UserMail
    /\ Len(payments) = 1 /\ payments[1].status = "pending"
    /\ Len(payments[1].cartItems) = 2 /\ payments[1].price.v = 25500
    /\ \E k \in DOMAIN cart : cart[k].buyerEmail = VendorMail
    /\ payments[1].cartItems = RowsOf(UserMail)

\* ------------------------------------------- claims: payment validation
\* The item's product exists with a positive numeric price, and the
\* requested quantity is a positive number.
PositiveItem(item) ==
  /\ item.productId \in DOMAIN products
  /\ products[item.productId].pricePerUnit.num
  /\ products[item.productId].pricePerUnit.mills > 0
  /\ item.quantity.num /\ item.quantity.tenths > 0

\* The request passes the validation the claim describes: a non-empty list
\* of positive items whose total is at least 50 cents.
StrictlyValid(items) ==
  /\ Len(items) > 0
  /\ \A i \in DOMAIN items : PositiveItem(items[i])
  /\ (WholeUnitsTotal(items, 1) + 5) \div 10 >= 50

\* C18: a POST /create-payment-intent-cart request that reached its handler
\* has made no provider call and was rejected (400 or 404) when its items
\* list is empty, a product is missing, a price or requested quantity is not
\* a positive number, or the total is under 50 cents; otherwise it made
\* exactly one provider call and was answered 200, or 500 when the provider
\* failed.
C18_StrictCartValidation ==
  \A s \in Slots :
    LET r == reqs[s] IN
    (r.route = RPayCart /\ r.pc = "done" /\ Entered(r, "handler")) =>
      IF StrictlyValid(r.bItems)
      THEN r.calls = 1 /\ r.status \in {200, 500}
      ELSE r.calls = 0 /\ r.status \in {400, 404}

\* --------------------------------------------- claims: historical orders
\* What GET /orders reports for buyer email about prices: per payment, the
\* price of each line and the total amount.
ReportedPrices(email) ==
  [k \in DOMAIN OrdersWithProducts(email) |->
     [id |-> OrdersWithProducts(email)[k].id,
      prices |-> [j \in DOMAIN OrdersWithProducts(email)[k].items |->
                    OrdersWithProducts(email)[k].items[j].price],
      totalAmount |-> OrdersWithProducts(email)[k].totalAmount]]

\* C19: a PATCH /modify-product that changes a product's pricePerUnit
\* leaves every stored payment as it is, and the per-line prices and total
\* amounts GET /orders reports for every buyer are the same after the change
\* as before it.
C19_OrdersFrozen ==
  [][\A s \in Slots :
       (/\ reqs[s].route = RModifyProduct /\ reqs[s].pc = "handler"
        /\ products' # products) =>
         /\ payments' = payments
         /\ \A e \in Emails : ReportedPrices(e)' = ReportedPrices(e)]_vars

\* After product 1 was repriced from $10.00 to $12.00, GET /orders reports
\* payment 1 of the user with the line at $10.00 and the total $25.50.
C19_Witness ==
  \E s \in Slots :
    /\ reqs[s].route = ROrders /\ reqs[s].pc = "done" /\ reqs[s].decoded = UserMail
    /\ 1 \in DOMAIN products /\ products[1].pricePerUnit.mills = 12000
    /\ \E k \in DOMAIN reqs[s].out :
         /\ reqs[s].out[k].id = 1
         /\ reqs[s].out[k].items[1].product_id = 1
         /\ reqs[s].out[k].items[1].price = 10000
         /\ reqs[s].out[k].totalAmount = 25500

\* ------------------------------------------------ claims: wishlist access
\* C20: a POST /wishlist request without a Bearer credential is answered
\* 401 and inserts nothing, and a request that inserts a wishlist entry
\* carries a token that verifies for an email equal to its query email whose
\* user has role user.
C20_WishlistGated ==
  [][\A s \in Slots :
       LET r == reqs[s]
           r2 == reqs'[s] IN
       (r.route = RWishlist /\ r.pc # "done" /\ r2.pc = "done") =>
         /\ NoBearerCredential(r.header) => r2.status = 401 /\ wish' = wish
         /\ wish' # wish =>
              \E e \in Emails :
                BearerFor(r.header, e) /\ r.qEmail = e /\ users[e] = "user"]_vars

\* ---------------------------------------------------- claims: concurrency
\* C21: in every reachable state, also with POST /wishlist requests whose
\* existence check and insert interleave, the wishlist holds at most one
\* entry per (email, productId).
C21_WishlistUnique ==
  \A e \in Emails, p \in {1, 2} : WishCount(e, p) <= 1

\* Number of answered POST /cart requests that added (email, productId).
AddsDone(email, productId) ==
  Cardinality({j \in DOMAIN hist :
                 /\ hist[j].route = RCart /\ hist[j].status \in {200, 201}
                 /\ hist[j].bEmail = email /\ hist[j].bProduct = productId})

\* C22: in every reachable state, also with POST /cart requests whose
\* existence check and write interleave, the cart holds at most one row per
\* (buyerEmail, productId), and the row's quantity is the number of add
\* requests for the pair that were answered 200 or 201.
C22_CartUniqueCount ==
  \A e \in Emails, p \in {1, 2} :
    /\ Cardinality(CartRows(e, p)) <= 1
    /\ \A k \in CartRows(e, p) : cart[k].quantity = AddsDone(e, p)

\* C23: in every reachable state, also with decrease requests on one row
\* whose read of the quantity and $inc interleave, every cart row has
\* quantity at least 1.
C23_QuantityAtLeastOne ==
  \A k \in DOMAIN cart : cart[k].quantity >= 1

\* C24: over any interleaving of PATCH /vendor-requests requests, an
\* application's vendor_status changes only from pending to approved or
\* rejected (hence at most once); the role-promotion write for an applicant
\* runs only while the applicant is not yet a vendor (at most once); and
\* when no request is in flight, an applicant whom this operation made a
\* vendor has an approved application.
C24_DecidedOnce ==
  [][/\ \A id \in DOMAIN vendorApps :
          vendorApps'[id].vendor_status # vendorApps[id].vendor_status =>
            /\ vendorApps[id].vendor_status = "pending"
            /\ vendorApps'[id].vendor_status \in {"approved", "rejected"}
     /\ \A s \in DOMAIN reqs :
          (reqs[s].pc = "promote" /\ reqs'[s].pc = "done") =>
            users[reqs[s].seenEmail] # "vendor"
     /\ (\A s \in DOMAIN reqs : reqs'[s].pc = "idle") =>
          \A id \in DOMAIN vendorApps :
            (/\ users'[vendorApps[id].email] = "vendor"
             /\ Directory[vendorApps[id].email] # "vendor") =>
              vendorApps'[id].vendor_status = "approved"]_vars

\* ----------------------------------------------------- claims: pagination
\* C25: with F the caller's records built from all paid payments, L the
\* limit (default 7) and p the page (default 1), a GET /vendor/orders
\* response holds exactly the records of F at the 0-based positions
\* (p-1)L .. pL-1, its totalPages is ceil(|F| / L), and every record of F
\* lies on exactly one of the pages 1..totalPages.
C25_VendorOrdersPages ==
  \A s \in Slots :
    LET r == reqs[s]
        F == VendorOrdersFrom(PaidPayments, 1, r.decoded)
        L == IF r.more.limit = 0 THEN 7 ELSE r.more.limit
        pg == IF r.more.page = 0 THEN 1 ELSE r.more.page
        onPage == {n \in DOMAIN F : (pg - 1) * L < n /\ n <= pg * L} IN
    (r.route = RVendorOrders /\ r.pc = "done" /\ r.status = 200) =>
      /\ Len(r.out) = Cardinality(onPage)
      /\ \A k \in DOMAIN r.out :
           /\ (pg - 1) * L + k \in onPage
           /\ r.out[k] = F[(pg - 1) * L + k]
      /\ r.totalPages * L >= Len(F) /\ (r.totalPages - 1) * L < Len(F)
      /\ \A n \in DOMAIN F :
           Cardinality({q \in 1..r.totalPages : (q - 1) * L < n /\ n <= q * L}) = 1

\* ------------------------------------------------------ claims: ownership
\* C26: a product gets status approved (by being created with it or by a
\* change of its status) only in a step of PATCH /approve-product run for a
\* caller whose role is admin; no step of POST /add-products or PATCH
\* /modify-product does it.
C26_ApprovedOnlyByAdmin ==
  [][\A id \in DOMAIN products' :
       (/\ products'[id].status = "approved"
        /\ (id \in DOMAIN products => products[id].status # "approved")) =>
         \E s \in Slots :
           /\ reqs[s].route = RApproveProduct /\ reqs[s].pc = "handler"
           /\ reqs'[s].pc = "done"
           /\ reqs[s].role = "admin" /\ users[reqs[s].decoded] = "admin"]_vars

\* C27: the payment document a POST /create-order step inserts is for the
\* buyer the request's token was verified for, and the cart rows it read
\* (kept in cartItems) are rows of that buyer, whatever buyerEmail the body
\* carries.
C27_CreateOrderOwnCart ==
  [][\A s \in Slots :
       (/\ reqs[s].route = RCreateOrder /\ reqs[s].pc = "handler"
        /\ reqs'[s].pc = "done") =>
         \A i \in DOMAIN payments' \ DOMAIN payments :
           /\ payments'[i].buyerEmail = reqs[s].decoded
           /\ \A k \in DOMAIN payments'[i].cartItems :
                payments'[i].cartItems[k].buyerEmail = reqs[s].decoded]_vars

\* C28: a DELETE /delete-wishlist/:id step for a caller verified as A removes
\* at most one wishlist entry, the entry removed has email A, and the
\* entries of every other email stay as they were.
C28_WishlistDeleteOwn ==
  [][\A s \in Slots :
       (/\ reqs[s].route = RDeleteWishlist /\ reqs[s].pc = "handler"
        /\ reqs'[s].pc = "done") =>
         /\ Len(wish) - Len(wish') \in {0, 1}
         /\ SelectSeq(wish', LAMBDA w : w.email # reqs[s].decoded)
              = SelectSeq(wish, LAMBDA w : w.email # reqs[s].decoded)]_vars

\* C30: a PATCH /modify-product/:id or DELETE /delete-products/:id step for
\* a caller whose role is vendor changes or removes only products whose
\* vendorEmail is the caller's verified email; every other vendor's product
\* stays as it was.
C30_VendorWritesOwnProducts ==
  [][\A s \in Slots :
       (/\ reqs[s].route \in {RModifyProduct, RDeleteProducts}
        /\ reqs[s].pc = "handler" /\ reqs'[s].pc = "done"
        /\ reqs[s].role = "vendor") =>
         \A id \in DOMAIN products :
           products[id].vendorEmail # reqs[s].decoded =>
             id \in DOMAIN products' /\ products'[id] = products[id]]_vars

\* ---------------------------------------------------------- claims: roles
\* C29: the role step of a request decides by the role the users collection
\* holds for the token's email when the step runs, so a role written by a
\* completed update decides every later role step, also for a token issued
\* before the update: the request goes on when that role is one the route
\* accepts and is answered 403 when it is not.
C29_RoleReadEachRequest ==
  [][\A s \in DOMAIN reqs :
       (/\ reqs[s].pc = "verifyRole" /\ reqs'[s].pc # "verifyRole"
        /\ ~Falsy(reqs[s].decoded)) =>
         /\ reqs'[s].role = users[reqs[s].decoded]
         /\ users[reqs[s].decoded] \in ExpectedRoles(reqs[s].route) =>
              reqs'[s].pc = "handler"
         /\ users[reqs[s].decoded] \notin ExpectedRoles(reqs[s].route) =>
              reqs'[s].pc = "done" /\ reqs'[s].status = 403]_vars

\* The user, made a vendor after the token was issued, was admitted to GET
\* /vendor/orders with that token, and is refused on GET /all-products.
C29_Witness ==
  /\ users[UserMail] = "vendor"
  /\ \E s \in DOMAIN reqs :
       /\ reqs[s].route = RVendorOrders /\ reqs[s].pc = "done"
       /\ reqs[s].status = 200
       /\ reqs[s].header = <<"Bearer", "tok-user">> /\ reqs[s].decoded = UserMail
  /\ \E s \in DOMAIN reqs :
       /\ reqs[s].route = RAllProducts /\ reqs[s].pc = "done"
       /\ reqs[s].status = 403 /\ reqs[s].decoded = UserMail

====
